---- MODULE Spec2Model ----
(***************************************************************************)
(* Model of the libnss bridging layer used by the authd NSS module:        *)
(*   - CBuffer, the bump allocator over a caller-owned region              *)
(*     (vendor_rust/libnss/src/interop.rs),                                *)
(*   - the ToC marshalers of Passwd, Group, Shadow and Host,               *)
(*   - Response::to_status / Response::to_c,                               *)
(*   - Iterator and the set*ent / get*ent_r / end*ent entry points that    *)
(*     share one mutex-guarded Iterator per entity kind.                   *)
(*                                                                         *)
(* Memory is modelled byte by byte.  A pointer is an absolute address; a   *)
(* pointer stored in the region occupies PtrSize bytes, little endian.     *)
(* A call that panics returns nothing: properties are stated of the calls  *)
(* that return, and the panic itself is a visible outcome ("panic").       *)
(***************************************************************************)
EXTENDS Integers, Sequences, FiniteSets, TLC

VARIABLES
    cb,       \* the CBuffer under test: start, pos, free, len, mem, oob
    bres,     \* the last CBuffer call: op, arg, tag, val
    ncalls,   \* number of calls made on cb
    call,     \* the last Response::to_c call and what it produced
    iter,     \* per entity kind, the Iterator behind the kind's Mutex
    lock,     \* per entity kind, the thread that holds the Mutex (0: nobody)
    th,       \* per thread, where it is in its entry-point call and its locals
    sess,     \* per entity kind, the get*ent_r calls that returned since the last
              \* set*ent that installed a list or the last end*ent, in return order,
              \* (last) the last set*ent or end*ent call on the kind that returned,
              \* and (looks) the single-record lookups of the kind that returned
              \* since then
    nops,     \* number of entry-point calls started
    aborted   \* the process was aborted by a panic

bufvars == <<cb, bres, ncalls>>

curvars == <<iter, lock, th, sess, nops, aborted>>

vars == <<cb, bres, ncalls, call, iter, lock, th, sess, nops, aborted>>

-----------------------------------------------------------------------------
(* Bounds of the model *)

\* largest caller region, in bytes, handed to a CBuffer under test
MaxBuf == 42
\* number of write_str / write_strs / reserve calls made on one CBuffer
MaxCalls == 3
\* number of set*ent / get*ent_r / end*ent calls made by all threads together
MaxOps == 4

-----------------------------------------------------------------------------
(* Program constants *)

\* std::mem::size_of::<*mut libc::c_char>() on the 64-bit targets
PtrSize == 8
\* libc::ERANGE
ERANGE == 34
\* libc::ENOENT
ENOENT == 2
\* enum NssStatus
NssTryAgain == -2
NssUnavail == -1
NssNotFound == 0
NssSuccess == 1
NssReturn == 2

-----------------------------------------------------------------------------
(* Bytes, strings and addresses *)

\* a Rust String is a sequence of bytes; byte 0 is NUL
HasNul(s) == \E i \in 1..Len(s) : s[i] = 0

\* the address the caller's region starts at (any non-null address)
BufStarts == {16}

\* the region contents before the call: zeroes, or a stale non-zero pattern
Fills == {0, 170}

RECURSIVE LEBytes(_, _)
\* the n bytes of v, least significant first (how a pointer lies in memory)
LEBytes(v, n) == IF n = 0 THEN <<>> ELSE <<v % 256>> \o LEBytes(v \div 256, n - 1)

RECURSIVE LEValue(_)
\* the value of a little-endian byte sequence
LEValue(bs) == IF bs = <<>> THEN 0 ELSE bs[1] + 256 * LEValue(Tail(bs))

-----------------------------------------------------------------------------
(* CBuffer *)

\* libc::memcpy(addr, bytes, Len(bytes)) on the region of b; a byte that lands
\* outside [start, start+len) is recorded in oob
memcpy(b, addr, bytes) ==
    LET off == addr - b.start
    IN  [b EXCEPT
            !.mem = [o \in DOMAIN b.mem |->
                        IF (o - off) + 1 \in 1..Len(bytes)
                        THEN bytes[(o - off) + 1] ELSE b.mem[o]],
            !.oob = b.oob \/ (\E i \in 1..Len(bytes) : (off + i) - 1 \notin DOMAIN b.mem)]

\* libc::memset(addr, c, n)
memset(b, addr, c, n) == memcpy(b, addr, [i \in 1..n |-> c])

CBuffer_new(ptr, len, region) ==
    [start |-> ptr, pos |-> ptr, free |-> len, len |-> len, mem |-> region, oob |-> FALSE]

clear(b) == memset(b, b.start, 0, b.len)

\* CString::new(string): fails on an interior NUL, otherwise appends the NUL
CString_new(string) ==
    IF HasNul(string) THEN [ok |-> FALSE, bytes |-> <<>>]
    ELSE [ok |-> TRUE, bytes |-> string \o <<0>>]

\* libc::strlen: the number of bytes before the first NUL
strlen(bytes) == CHOOSE n \in 0..(Len(bytes) - 1) :
                    bytes[n + 1] = 0 /\ \A i \in 1..n : bytes[i] # 0

\* the three outcomes of a CBuffer call
Ok(b, v) == [buf |-> b, tag |-> "ok", val |-> v]
\* io::Error::from_raw_os_error(e)
Err(b, e) == [buf |-> b, tag |-> "err", val |-> e]
\* .expect(..) on an Err: the call never returns
Panic(b) == [buf |-> b, tag |-> "panic", val |-> 0]

\* write_str with the capacity check "free < len": the NUL is not counted
write_str_lax(b, string) ==
    LET str_start == b.pos
        cstr == CString_new(string)
    IN  IF ~cstr.ok THEN Panic(b)
        ELSE LET len == strlen(cstr.bytes)
             IN  IF b.free < len THEN Err(b, ERANGE)
                 ELSE Ok([memcpy(b, b.pos, SubSeq(cstr.bytes, 1, len)) EXCEPT
                             !.pos = b.pos + len + 1,
                             !.free = b.free - (len + 1)],
                         str_start)

\* write_str that advances by len instead of len + 1: no room left for the NUL
write_str_noterm(b, string) ==
    LET str_start == b.pos
        cstr == CString_new(string)
    IN  IF ~cstr.ok THEN Panic(b)
        ELSE LET len == strlen(cstr.bytes)
             IN  IF b.free < len + 1 THEN Err(b, ERANGE)
                 ELSE Ok([memcpy(b, b.pos, SubSeq(cstr.bytes, 1, len)) EXCEPT
                             !.pos = b.pos + len,
                             !.free = b.free - len],
                         str_start)

write_str(b, string) ==
    LET str_start == b.pos
        cstr == CString_new(string)
    IN  IF ~cstr.ok THEN Panic(b)
        ELSE LET len == strlen(cstr.bytes)
             IN  IF b.free < len + 1 THEN Err(b, ERANGE)
                 ELSE Ok([memcpy(b, b.pos, SubSeq(cstr.bytes, 1, len)) EXCEPT
                             !.pos = b.pos + len + 1,
                             !.free = b.free - (len + 1)],
                         str_start)

\* reserve that compares len as a signed number: a negative len passes
reserve_signed(b, len) ==
    LET start == b.pos
    IN  IF b.free < len THEN Err(b, ERANGE)
        ELSE Ok([b EXCEPT !.pos = b.pos + len, !.free = b.free - len], start)

\* reserve with the capacity check off by one
reserve_lax(b, len) ==
    LET start == b.pos
    IN  IF len < 0 \/ b.free + 1 < len THEN Err(b, ERANGE)
        ELSE Ok([b EXCEPT !.pos = b.pos + len, !.free = b.free - len], start)

\* len is an isize; "len as usize" of a negative len exceeds every free count
reserve(b, len) ==
    LET start == b.pos
    IN  IF len < 0 \/ b.free < len THEN Err(b, ERANGE)
        ELSE Ok([b EXCEPT !.pos = b.pos + len, !.free = b.free - len], start)

RECURSIVE write_strs_loop_stuck(_, _, _, _)
\* the loop of write_strs without "pos = pos.offset(1)"
write_strs_loop_stuck(b, strings, i, pos) ==
    IF i > Len(strings) THEN Ok(b, pos)
    ELSE LET w == write_str(b, strings[i])
         IN  IF w.tag # "ok" THEN w
             ELSE write_strs_loop_stuck(memcpy(w.buf, pos, LEBytes(w.val, PtrSize)),
                                        strings, i + 1, pos)

RECURSIVE write_strs_loop_wrapped(_, _, _, _)
\* the loop of write_strs reporting a string that does not fit as an error
\* without an OS error code
write_strs_loop_wrapped(b, strings, i, pos) ==
    IF i > Len(strings) THEN Ok(b, pos)
    ELSE LET w == write_str(b, strings[i])
         IN  IF w.tag = "err" THEN Err(w.buf, 0)
             ELSE IF w.tag # "ok" THEN w
             ELSE write_strs_loop_wrapped(memcpy(w.buf, pos, LEBytes(w.val, PtrSize)),
                                          strings, i + 1, pos + PtrSize)

RECURSIVE write_strs_loop(_, _, _, _)
\* the for loop of write_strs from string i on, pos being the next slot
write_strs_loop(b, strings, i, pos) ==
    IF i > Len(strings) THEN Ok(b, pos)
    ELSE LET w == write_str(b, strings[i])
         IN  IF w.tag # "ok" THEN w
             ELSE write_strs_loop(memcpy(w.buf, pos, LEBytes(w.val, PtrSize)),
                                  strings, i + 1, pos + PtrSize)

write_strs(b, strings) ==
    LET r == reserve(b, PtrSize * (Len(strings) + 1))
    IN  IF r.tag # "ok" THEN r
        ELSE LET vec_start == r.val
                 l == write_strs_loop(r.buf, strings, 1, vec_start)
             IN  IF l.tag # "ok" THEN l
                 ELSE Ok(memset(l.buf, l.val, 0, PtrSize), vec_start)

-----------------------------------------------------------------------------
(* Reading the region back, as the C caller does *)

\* is [addr, addr+n) inside the region of b
InRegion(b, addr, n) == addr >= b.start /\ addr + n <= b.start + b.len

\* the bytes from addr up to the first NUL inside the region; a string that
\* runs to the end of the region without a NUL counts as not terminated
CStrEnds(b, addr) == {e \in addr..(b.start + b.len - 1) : b.mem[e - b.start] = 0}

Terminated(b, addr) == InRegion(b, addr, 1) /\ CStrEnds(b, addr) # {}

CStrAt(b, addr) ==
    LET e == CHOOSE x \in CStrEnds(b, addr) : \A y \in CStrEnds(b, addr) : x <= y
    IN  [i \in 1..(e - addr) |-> b.mem[(addr + i - 1) - b.start]]

\* the pointer stored in the PtrSize bytes at addr
PtrAt(b, addr) == LEValue([i \in 1..PtrSize |-> b.mem[(addr + i - 1) - b.start]])

RECURSIVE PtrArrayAt(_, _, _)
\* the pointers of a null-terminated pointer array at addr (at most n of them);
\* -1 marks an array that leaves the region before its null
PtrArrayAt(b, addr, n) ==
    IF ~InRegion(b, addr, PtrSize) THEN <<0 - 1>>
    ELSE IF PtrAt(b, addr) = 0 \/ n = 0 THEN <<>>
    ELSE <<PtrAt(b, addr)>> \o PtrArrayAt(b, addr + PtrSize, n - 1)

-----------------------------------------------------------------------------
(* ToC: marshaling one record into the output struct and the CBuffer *)

\* libc::AF_INET and libc::AF_INET6
AF_INET == 2
AF_INET6 == 10

\* a field of the caller's output struct that the call has not assigned
Unset == 0 - 1

\* the state threaded through the statements of a to_c body: the buffer, the
\* output struct, and the outcome so far ("?" returns at the first Err)
Begin(result, buffer) == [buf |-> buffer, out |-> result, tag |-> "ok", val |-> 0]

\* (*result).field = value
Assign(st, field, value) ==
    IF st.tag # "ok" THEN st ELSE [st EXCEPT !.out = [@ EXCEPT ![field] = value]]

\* buffer.op(..)? : carry on with the new buffer, or stop with its Err / panic
Step(st, r) ==
    IF st.tag # "ok" THEN st
    ELSE [st EXCEPT !.buf = r.buf, !.tag = r.tag, !.val = r.val]

\* (*result).field = r? for the outcome r of a CBuffer call
Put(st, field, r) == Assign(Step(st, r), field, r.val)

\* (*result).field = buffer.write_str(s)?
PutStr(st, field, s) ==
    IF st.tag # "ok" THEN st ELSE Put(st, field, write_str(st.buf, s))

\* (*result).field = buffer.write_strs(l)?
PutStrs(st, field, l) ==
    IF st.tag # "ok" THEN st ELSE Put(st, field, write_strs(st.buf, l))

CPasswd0 == [name |-> Unset, passwd |-> Unset, uid |-> Unset, gid |-> Unset,
             gecos |-> Unset, dir |-> Unset, shell |-> Unset]

Passwd_to_c(self, result, buffer) ==
    LET s1 == PutStr(Begin(result, buffer), "name", self.name)
        s2 == PutStr(s1, "passwd", self.passwd)
        s3 == Assign(s2, "uid", self.uid)
        s4 == Assign(s3, "gid", self.gid)
        s5 == PutStr(s4, "gecos", self.gecos)
        s6 == PutStr(s5, "dir", self.dir)
    IN  PutStr(s6, "shell", self.shell)

CGroup0 == [name |-> Unset, passwd |-> Unset, gid |-> Unset, members |-> Unset]

Group_to_c(self, result, buffer) ==
    LET s1 == PutStr(Begin(result, buffer), "name", self.name)
        s2 == PutStr(s1, "passwd", self.passwd)
        s3 == Assign(s2, "gid", self.gid)
    IN  PutStrs(s3, "members", self.members)

CShadow0 == [name |-> Unset, passwd |-> Unset, last_change |-> Unset,
             change_min_days |-> Unset, change_max_days |-> Unset,
             change_warn_days |-> Unset, change_inactive_days |-> Unset,
             expire_date |-> Unset, reserved |-> Unset]

Shadow_to_c(self, result, buffer) ==
    LET s1 == PutStr(Begin(result, buffer), "name", self.name)
        s2 == PutStr(s1, "passwd", self.passwd)
        s3 == Assign(s2, "last_change", self.last_change)
        s4 == Assign(s3, "change_min_days", self.change_min_days)
        s5 == Assign(s4, "change_max_days", self.change_max_days)
        s6 == Assign(s5, "change_warn_days", self.change_warn_days)
        s7 == Assign(s6, "change_inactive_days", self.change_inactive_days)
        s8 == Assign(s7, "expire_date", self.expire_date)
    IN  Assign(s8, "reserved", self.reserved)

CHost0 == [name |-> Unset, h_aliases |-> Unset, h_addrtype |-> Unset,
           h_length |-> Unset, h_addr_list |-> Unset]

RECURSIVE Host_addr_loop_stuck(_, _, _, _, _)
\* the loop over the addresses without "array_pos = array_pos.offset(1)"
Host_addr_loop_stuck(st, addrs, i, addr_len, array_pos) ==
    IF st.tag # "ok" \/ i > Len(addrs) THEN [st EXCEPT !.val = IF st.tag = "ok" THEN array_pos ELSE @]
    ELSE LET r == reserve(st.buf, addr_len)
         IN  IF r.tag # "ok" THEN Step(st, r)
             ELSE LET ptr == r.val
                      copied == memcpy(r.buf, ptr, SubSeq(addrs[i], 1, addr_len))
                      stored == memcpy(copied, array_pos, LEBytes(ptr, PtrSize))
                  IN  Host_addr_loop_stuck([st EXCEPT !.buf = stored], addrs, i + 1,
                                           addr_len, array_pos)

RECURSIVE Host_addr_loop(_, _, _, _, _)
\* "for a in addrs": reserve addr_len bytes, copy the octets, store the pointer
Host_addr_loop(st, addrs, i, addr_len, array_pos) ==
    IF st.tag # "ok" \/ i > Len(addrs) THEN [st EXCEPT !.val = IF st.tag = "ok" THEN array_pos ELSE @]
    ELSE LET r == reserve(st.buf, addr_len)
         IN  IF r.tag # "ok" THEN Step(st, r)
             ELSE LET ptr == r.val
                      copied == memcpy(r.buf, ptr, SubSeq(addrs[i], 1, addr_len))
                      stored == memcpy(copied, array_pos, LEBytes(ptr, PtrSize))
                  IN  Host_addr_loop([st EXCEPT !.buf = stored], addrs, i + 1,
                                     addr_len, array_pos + PtrSize)

\* (*hostent).h_addr_list = buffer.reserve(ptr_size * (count + 1))? as *mut *mut c_char
Host_reserve_list(st, count) ==
    IF st.tag # "ok" THEN st ELSE Put(st, "h_addr_list", reserve(st.buf, PtrSize * (count + 1)))

\* the loop over the addresses, array_pos starting at h_addr_list
Host_addrs(st, addrs, addr_len) == Host_addr_loop(st, addrs, 1, addr_len, st.out.h_addr_list)

\* libc::memset(array_pos as *mut c_void, 0, 1); Ok(())
Host_terminate(st) ==
    IF st.tag # "ok" THEN st
    ELSE [st EXCEPT !.buf = memset(st.buf, st.val, 0, 1), !.val = 0]

\* self.addresses is [v |-> "V4" or "V6", addrs |-> the octets of each address]
Host_to_c(self, hostent, buffer) ==
    LET v4 == self.addresses.v = "V4"
        addr_len == IF v4 THEN 4 ELSE 16
        s1 == PutStr(Begin(hostent, buffer), "name", self.name)
        s2 == PutStrs(s1, "h_aliases", self.aliases)
        s3 == Assign(s2, "h_addrtype", IF v4 THEN AF_INET ELSE AF_INET6)
        s4 == Assign(s3, "h_length", addr_len)
        s5 == Host_reserve_list(s4, Len(self.addresses.addrs))
    IN  Host_terminate(Host_addrs(s5, self.addresses.addrs, addr_len))

\* entity.to_c(result, &mut buffer), by entity kind
Entity_to_c(kind, entity, result, buffer) ==
    CASE kind = "passwd" -> Passwd_to_c(entity, result, buffer)
      [] kind = "group" -> Group_to_c(entity, result, buffer)
      [] kind = "shadow" -> Shadow_to_c(entity, result, buffer)
      [] kind = "host" -> Host_to_c(entity, result, buffer)

\* the caller's output struct before the call
Result0(kind) ==
    CASE kind = "passwd" -> CPasswd0
      [] kind = "group" -> CGroup0
      [] kind = "shadow" -> CShadow0
      [] kind = "host" -> CHost0

-----------------------------------------------------------------------------
(* Response *)

Tags == {"Success", "NotFound", "Unavail", "TryAgain", "Return"}

Success(r) == [tag |-> "Success", val |-> r]

\* a variant that carries no payload
Bare(tag) == [tag |-> tag]

\* to_status with the NotFound and Unavail arms exchanged
to_status_swapped(self) ==
    CASE self.tag = "Success" -> NssSuccess
      [] self.tag = "TryAgain" -> NssTryAgain
      [] self.tag = "Unavail" -> NssNotFound
      [] self.tag = "NotFound" -> NssUnavail
      [] self.tag = "Return" -> NssReturn

to_status(self) ==
    CASE self.tag = "Success" -> NssSuccess
      [] self.tag = "TryAgain" -> NssTryAgain
      [] self.tag = "Unavail" -> NssUnavail
      [] self.tag = "NotFound" -> NssNotFound
      [] self.tag = "Return" -> NssReturn

\* the match of to_c that leaves errno alone when marshaling succeeds
to_c_match_stale(self, result, m, errno) ==
    CASE m.tag = "ok" ->
            [tag |-> "ret", status |-> to_status(self), errno |-> errno,
             out |-> m.out, buf |-> m.buf]
      [] m.tag = "err" /\ m.val # 0 ->
            [tag |-> "ret", status |-> to_status(Bare("TryAgain")), errno |-> m.val,
             out |-> m.out, buf |-> m.buf]
      [] m.tag = "err" /\ m.val = 0 ->
            [tag |-> "ret", status |-> to_status(Bare("Unavail")), errno |-> ENOENT,
             out |-> m.out, buf |-> m.buf]
      [] m.tag = "panic" ->
            [tag |-> "panic", status |-> 0, errno |-> errno, out |-> m.out, buf |-> m.buf]

\* match entity.to_c(result, &mut buffer) { Ok(()) => .., Err(e) => match e.raw_os_error() .. }
\* on the outcome m of the marshaling; an Err without an OS error code is
\* val = 0 (raw_os_error() = None)
to_c_match(self, result, m, errno) ==
    CASE m.tag = "ok" ->
            [tag |-> "ret", status |-> to_status(self), errno |-> 0,
             out |-> m.out, buf |-> m.buf]
      [] m.tag = "err" /\ m.val # 0 ->
            [tag |-> "ret", status |-> to_status(Bare("TryAgain")), errno |-> m.val,
             out |-> m.out, buf |-> m.buf]
      [] m.tag = "err" /\ m.val = 0 ->
            [tag |-> "ret", status |-> to_status(Bare("Unavail")), errno |-> ENOENT,
             out |-> m.out, buf |-> m.buf]
      [] m.tag = "panic" ->
            [tag |-> "panic", status |-> 0, errno |-> errno, out |-> m.out, buf |-> m.buf]

\* Response::to_c(result, buf, buflen, errnop).  buf is the caller's region
\* (start address and contents), result and errno their values before the call.
Response_to_c(self, kind, result, start, region, buflen, errno) ==
    IF self.tag = "Success"
    THEN to_c_match(self, result,
                    Entity_to_c(kind, self.val, result,
                                clear(CBuffer_new(start, buflen, region))),
                    errno)
    ELSE [tag |-> "ret", status |-> to_status(self), errno |-> errno,
          out |-> result, buf |-> CBuffer_new(start, buflen, region)]

-----------------------------------------------------------------------------
(* Iterator *)

\* Option<VecDeque<T>>
None == [some |-> FALSE, v |-> <<>>]

Some(v) == [some |-> TRUE, v |-> v]

Iterator_new == [items |-> None, index |-> 0]

\* open() that keeps the old index
open_keep_index(self, items) ==
    [it |-> [items |-> Some(items), index |-> self.index], status |-> NssSuccess]

open(self, items) == [it |-> [items |-> Some(items), index |-> 0], status |-> NssSuccess]

\* next() that reports an Iterator without a sequence as exhausted
next_match_exhausted(self) ==
    IF self.items.some /\ self.index < Len(self.items.v)
    THEN Success(self.items.v[self.index + 1])
    ELSE Bare("NotFound")

\* the match of next(): items.get(self.index), zero-based
next_match(self) ==
    IF self.items.some
    THEN IF self.index < Len(self.items.v)
         THEN Success(self.items.v[self.index + 1])
         ELSE Bare("NotFound")
    ELSE Bare("Unavail")

\* next() that forgets to advance
next_advance_stuck(self) == self

\* self.index += 1
next_advance(self) == [self EXCEPT !.index = @ + 1]

previous(self) == IF self.index > 0 THEN [self EXCEPT !.index = @ - 1] ELSE self

\* close() that keeps the sequence
close_keep(self) == [it |-> [self EXCEPT !.index = 0], status |-> NssSuccess]

close(self) == [it |-> [items |-> None, index |-> 0], status |-> NssSuccess]

\* the entity kinds that have an iterator, and the threads of the process
EnumKinds == {"passwd", "group"}

Threads == {1, 2}

\* the state of the iterators, mutexes and threads before any call
CursorIdle ==
    /\ iter = [k \in EnumKinds |-> Iterator_new]
    /\ lock = [k \in EnumKinds |-> 0]
    /\ th = [t \in Threads |-> [pc |-> "idle"]]
    /\ sess = [k \in EnumKinds |-> [state |-> "never", items |-> <<>>, gets |-> <<>>,
                                      last |-> [fn |-> "none"], looks |-> <<>>]]
    /\ nops = 0
    /\ aborted = FALSE

-----------------------------------------------------------------------------
(* Specification SpecBuf: calls on one CBuffer *)

\* arguments of write_str
StrArgs == {<<>>, <<97>>, <<98, 97>>, <<97, 0>>}

\* arguments of write_strs
ListArgs == {<<>>, <<<<97>>>>, <<<<98, 97>>, <<>>>>, <<<<97>>, <<0>>>>}

\* the strings a backend record may carry (the last one has an interior NUL)
FieldStrs == {<<>>, <<98, 97>>, <<97, 0>>}

Passwds == [name : FieldStrs, passwd : FieldStrs, uid : {1000}, gid : {2000},
            gecos : FieldStrs, dir : FieldStrs, shell : FieldStrs]

Groups == [name : FieldStrs, passwd : FieldStrs, gid : {2000}, members : ListArgs]

Shadows == [name : FieldStrs, passwd : FieldStrs, last_change : {19000},
            change_min_days : {0}, change_max_days : {99999},
            change_warn_days : {7}, change_inactive_days : {0 - 1},
            expire_date : {0 - 1}, reserved : {0}]

\* Addresses::V4(..) / Addresses::V6(..), each address as its octets
AddrSets == {[v |-> "V4", addrs |-> <<>>],
             [v |-> "V4", addrs |-> << <<10, 0, 0, 1>> >>],
             [v |-> "V4", addrs |-> << <<10, 0, 0, 1>>, <<192, 168, 0, 7>> >>],
             [v |-> "V6", addrs |-> <<>>],
             [v |-> "V6", addrs |-> << [i \in 1..16 |-> IF i = 16 THEN 1 ELSE 0] >>]}

Hosts == [name : FieldStrs, aliases : ListArgs, addresses : AddrSets]

\* arguments of Host::to_c on the buffer under test
HostArgs == {h \in Hosts : h.name = <<>> /\ h.aliases = <<>>}

\* arguments of reserve
LenArgs == {0 - 1, 0, 4, 16}

NoCall == [op |-> "none", arg |-> <<>>, tag |-> "ok", val |-> 0]

NoToC == [op |-> "none", kind |-> "none"]

\* CBuffer::new followed by clear(), as Response::to_c sets a buffer up
InitBuf ==
    /\ \E len \in 0..MaxBuf, start \in BufStarts, fill \in Fills :
          cb = clear(CBuffer_new(start, len, [o \in 0..(len - 1) |-> fill]))
    /\ bres = NoCall
    /\ ncalls = 0
    /\ call = NoToC
    /\ CursorIdle

Apply(op, arg, r) ==
    /\ ncalls < MaxCalls
    /\ bres.tag # "panic"
    /\ cb' = r.buf
    /\ bres' = [op |-> op, arg |-> arg, tag |-> r.tag, val |-> r.val]
    /\ ncalls' = ncalls + 1
    /\ UNCHANGED <<call, curvars>>

DoWriteStr == \E s \in StrArgs : Apply("write_str", s, write_str(cb, s))

DoWriteStrs == \E l \in ListArgs : Apply("write_strs", l, write_strs(cb, l))

DoReserve == \E n \in LenArgs : Apply("reserve", <<n>>, reserve(cb, n))

\* Host::to_c, the caller of reserve outside CBuffer
DoHostToC == \E h \in HostArgs : Apply("host_to_c", h, Host_to_c(h, CHost0, cb))

NextBuf == DoWriteStr \/ DoWriteStrs \/ DoReserve \/ DoHostToC

SpecBuf == InitBuf /\ [][NextBuf]_vars

-----------------------------------------------------------------------------
(* Specification SpecToC: Response::to_status and Response::to_c applied to   *)
(* what a backend hook returned, as the single-record lookups do              *)
(* (get_entry_by_uid(uid).to_c(result, buf, buflen, errnop))                  *)

Entities(kind) ==
    CASE kind = "passwd" -> Passwds
      [] kind = "group" -> Groups
      [] kind = "shadow" -> Shadows
      [] kind = "host" -> Hosts

\* what a hook may return for one record
Responses(kind) == {Success(e) : e \in Entities(kind)} \cup {Bare(t) : t \in Tags \ {"Success"}}

\* what the caller's memory holds before the call: the fill byte of the region
\* and the value of errno (all clear, or stale)
Envs == {[fill |-> 0, errno |-> 0], [fill |-> 170, errno |-> 11]}

\* the inputs of one call: the hook's response and the caller's arguments
ToCInputs ==
    UNION {[op : {"pending"}, kind : {kind}, resp : Responses(kind),
            buflen : 0..MaxBuf, start : BufStarts, env : Envs] :
           kind \in {"passwd", "group", "shadow", "host"}}

InitToC ==
    /\ cb = CBuffer_new(16, 0, <<>>)
    /\ bres = NoCall
    /\ ncalls = 0
    /\ call \in ToCInputs
    /\ CursorIdle

\* response.to_c(result, buf, buflen, errnop) on the response of a hook
DoToC(kind) ==
    /\ call.op = "pending"
    /\ call.kind = kind
    /\ call' = [call EXCEPT !.op = "to_c"] @@
               [r |-> Response_to_c(call.resp, kind, Result0(kind), call.start,
                                    [o \in 0..(call.buflen - 1) |-> call.env.fill],
                                    call.buflen, call.env.errno)]
    /\ UNCHANGED <<bufvars, curvars>>

ToCPasswd == DoToC("passwd")

ToCGroup == DoToC("group")

ToCShadow == DoToC("shadow")

ToCHost == DoToC("host")

\* response.to_status() on the response of a hook
DoToStatus ==
    /\ call.op = "pending"
    /\ call' = [call EXCEPT !.op = "to_status"] @@ [status |-> to_status(call.resp)]
    /\ UNCHANGED <<bufvars, curvars>>

NextToC == ToCPasswd \/ ToCGroup \/ ToCShadow \/ ToCHost \/ DoToStatus

SpecToC == InitToC /\ [][NextToC]_vars

-----------------------------------------------------------------------------
(* Specification Spec: the enumeration entry points set*ent / get*ent_r /     *)
(* end*ent of each kind, called by the threads of one process.  Every entry   *)
(* point takes the kind's Mutex first and holds it until it returns; the      *)
(* statements under the lock are separate steps.                              *)

\* records the backend lists, told apart by their names
EnumRecord(kind, name) ==
    CASE kind = "passwd" ->
            [name |-> name, passwd |-> <<120>>, uid |-> 1000, gid |-> 2000,
             gecos |-> <<>>, dir |-> <<47>>, shell |-> <<>>]
      [] kind = "group" ->
            [name |-> name, passwd |-> <<120>>, gid |-> 2000, members |-> << <<97>> >>]

\* what get_all_entries() may return
ListAlls(kind) ==
    {Success(<<>>),
     Success(<<EnumRecord(kind, <<97>>), EnumRecord(kind, <<98, 97>>)>>),
     Success(<<EnumRecord(kind, <<98>>), EnumRecord(kind, <<97, 0>>)>>),
     Bare("NotFound"), Bare("Unavail")}

\* the buflen a caller passes to get*ent_r
GetBufLens == {3, MaxBuf}

\* the caller's region and errno before a get*ent_r call
EnumEnv == [fill |-> 170, errno |-> 11]

InitCursor ==
    /\ cb = CBuffer_new(16, 0, <<>>)
    /\ bres = NoCall
    /\ ncalls = 0
    /\ call = NoToC
    /\ CursorIdle

\* a lock tested on the mutexes of the other kinds instead of this kind's
CanLock_other(k) == \A j \in EnumKinds \ {k} : lock[j] = 0

\* one mutex for the iterators of all kinds
CanLock_global(k) == \A j \in EnumKinds : lock[j] = 0

\* a lock that lets every thread in
CanLock_any(k) == TRUE

\* Mutex::lock(): the mutex is free
CanLock(k) == lock[k] = 0

\* ITERATOR.lock().unwrap() at the top of an entry point
Acquire(t, k, pc, buflen) ==
    /\ ~aborted
    /\ th[t].pc = "idle"
    /\ nops < MaxOps
    /\ CanLock(k)
    /\ lock' = [lock EXCEPT ![k] = t]
    /\ th' = [th EXCEPT ![t] = [pc |-> pc, k |-> k, buflen |-> buflen]]
    /\ nops' = nops + 1
    /\ UNCHANGED <<iter, sess, aborted, bufvars, call>>

\* the entry point returns: the MutexGuard is dropped
Return(t, s) ==
    /\ sess' = [sess EXCEPT ![th[t].k] = s]
    /\ lock' = [lock EXCEPT ![th[t].k] = 0]
    /\ th' = [th EXCEPT ![t] = [pc |-> "idle"]]
    /\ UNCHANGED <<nops, aborted, bufvars, call>>

\* what a set*ent or end*ent call found in the Iterator: whether it held a
\* sequence, its index and the length of the sequence
Found(self) == [some |-> self.items.some, index |-> self.index, len |-> Len(self.items.v)]

\* the threads whose get*ent_r calls are in gets
Users(gets) == {gets[i].t : i \in 1..Len(gets)}

\* a set*ent or end*ent call that returned: the status it returned, the
\* response of get_all_entries(), what the call found in the Iterator, the
\* Iterator as it left it, the threads whose get*ent_r calls had returned on
\* the cursor since it was last installed or closed, and whether the caller
\* is one of them
Event(fn, t, status, resp, before, after, gets) ==
    [fn |-> fn, status |-> status, resp |-> resp, before |-> Found(before),
     after |-> after, users |-> Users(gets), own |-> t \in Users(gets)]

\* a set*ent call that left the Iterator alone: also the Iterator as the call
\* found it, and how many get*ent_r calls had returned by then
Kept(e, before, gets) == e @@ [kept |-> before, at |-> Len(gets)]

setent_lock(t, k) == Acquire(t, k, "set_locked", 0)

\* get_all_entries(), called with the mutex held
setent_fetch(t) ==
    /\ ~aborted
    /\ th[t].pc = "set_locked"
    /\ \E resp \in ListAlls(th[t].k) :
          th' = [th EXCEPT ![t] = [pc |-> "set_fetched", k |-> th[t].k, resp |-> resp]]
    /\ UNCHANGED <<iter, lock, sess, nops, aborted, bufvars, call>>

\* set*ent that closes the Iterator when the list-all call fails
setent_match_close(self, response) ==
    IF response.tag = "Success" THEN open(self, response.val)
    ELSE [it |-> close(self).it, status |-> to_status(response)]

\* match response { Success(entries) => iter.open(entries), response => response.to_status() }
setent_match(self, response) ==
    IF response.tag = "Success" THEN open(self, response.val)
    ELSE [it |-> self, status |-> to_status(response)]

setent_return(t) ==
    /\ ~aborted
    /\ th[t].pc = "set_fetched"
    /\ LET k == th[t].k
           m == setent_match(iter[k], th[t].resp)
           e == Event("set", t, m.status, th[t].resp.tag, iter[k], m.it, sess[k].gets)
       IN  /\ iter' = [iter EXCEPT ![k] = m.it]
           /\ Return(t, IF th[t].resp.tag = "Success"
                        THEN [state |-> "open", items |-> th[t].resp.val, gets |-> <<>>,
                              last |-> e, looks |-> <<>>]
                        ELSE [sess[k] EXCEPT !.last = Kept(e, iter[k], sess[k].gets)])

endent_lock(t, k) == Acquire(t, k, "end_locked", 0)

endent_return(t) ==
    /\ ~aborted
    /\ th[t].pc = "end_locked"
    /\ LET k == th[t].k
           c == close(iter[k])
       IN  /\ iter' = [iter EXCEPT ![k] = c.it]
           /\ Return(t, [state |-> "closed", items |-> <<>>, gets |-> <<>>,
                         last |-> Event("end", t, c.status, "none", iter[k], c.it,
                                        sess[k].gets),
                         looks |-> <<>>])

getent_lock(t, k) == \E buflen \in GetBufLens : Acquire(t, k, "get_locked", buflen)

\* iter.next(), first half: the match on self.items
getent_match(t) ==
    /\ ~aborted
    /\ th[t].pc = "get_locked"
    /\ th' = [th EXCEPT ![t] = [pc |-> "get_matched", k |-> th[t].k,
                                buflen |-> th[t].buflen,
                                resp |-> next_match(iter[th[t].k]),
                                pos |-> iter[th[t].k].index]]
    /\ UNCHANGED <<iter, lock, sess, nops, aborted, bufvars, call>>

\* iter.next(), second half: self.index += 1
getent_advance(t) ==
    /\ ~aborted
    /\ th[t].pc = "get_matched"
    /\ iter' = [iter EXCEPT ![th[t].k] = next_advance(iter[th[t].k])]
    /\ th' = [th EXCEPT ![t].pc = "get_advanced"]
    /\ UNCHANGED <<lock, sess, nops, aborted, bufvars, call>>

\* the thread after to_c gave r: it holds the code to return, or has panicked;
\* name is the pw_name / gr_name the caller reads on success
getent_marshaled(t, r) ==
    IF r.tag = "panic"
    THEN /\ aborted' = TRUE
         /\ th' = [th EXCEPT ![t].pc = "panicked"]
    ELSE /\ aborted' = aborted
         /\ th' = [th EXCEPT ![t] = [pc |-> "get_marshaled", k |-> th[t].k,
                      buflen |-> th[t].buflen, resp |-> th[t].resp,
                      pos |-> th[t].pos,
                      code |-> r.status, errno |-> r.errno,
                      name |-> IF r.status = NssSuccess /\ Terminated(r.buf, r.out.name)
                               THEN CStrAt(r.buf, r.out.name) ELSE <<>>]]

\* .to_c(result, buf, buflen, errnop); a panic in an extern "C" fn aborts
getent_to_c(t) ==
    /\ ~aborted
    /\ th[t].pc = "get_advanced"
    /\ getent_marshaled(t, Response_to_c(th[t].resp, th[t].k, Result0(th[t].k), 16,
                                         [o \in 0..(th[t].buflen - 1) |-> EnumEnv.fill],
                                         th[t].buflen, EnumEnv.errno))
    /\ UNCHANGED <<iter, lock, sess, nops, bufvars, call>>

\* get*ent_r that rewinds whatever the code
getent_rewind_always(self, code) == previous(self)

\* get*ent_r without the rewind
getent_rewind_none(self, code) == self

\* if code == NssStatus::TryAgain { iter.previous(); } return code;
getent_rewind(self, code) == IF code = NssTryAgain THEN previous(self) ELSE self

getent_return(t) ==
    /\ ~aborted
    /\ th[t].pc = "get_marshaled"
    /\ LET k == th[t].k
       IN  /\ iter' = [iter EXCEPT ![k] = getent_rewind(iter[k], th[t].code)]
           /\ Return(t, [sess[k] EXCEPT !.gets = Append(@,
                            [t |-> t, status |-> th[t].code, errno |-> th[t].errno,
                             pos |-> th[t].pos, after |-> iter'[k].index,
                             buflen |-> th[t].buflen, name |-> th[t].name,
                             resp |-> th[t].resp.tag, looks |-> Len(sess[k].looks)])])

Next ==
    \E t \in Threads :
        \/ \E k \in EnumKinds : setent_lock(t, k) \/ getent_lock(t, k) \/ endent_lock(t, k)
        \/ setent_fetch(t)
        \/ setent_return(t)
        \/ endent_return(t)
        \/ getent_match(t)
        \/ getent_advance(t)
        \/ getent_to_c(t)
        \/ getent_return(t)

Spec == InitCursor /\ [][Next]_vars

-----------------------------------------------------------------------------
(* What the claims are stated with *)

RECURSIVE SumSeq(_)
SumSeq(q) == IF q = <<>> THEN 0 ELSE q[1] + SumSeq(Tail(q))

\* the bytes of a string list: one pointer-sized slot per element plus one,
\* then each string and its NUL
ListSizes(l) == <<PtrSize * (Len(l) + 1)>> \o [i \in 1..Len(l) |-> Len(l[i]) + 1]

\* the allocations a record needs, in the order of its fields
AllocSizes(kind, e) ==
    CASE kind = "passwd" ->
            <<Len(e.name) + 1, Len(e.passwd) + 1, Len(e.gecos) + 1, Len(e.dir) + 1,
              Len(e.shell) + 1>>
      [] kind = "group" -> <<Len(e.name) + 1, Len(e.passwd) + 1>> \o ListSizes(e.members)
      [] kind = "shadow" -> <<Len(e.name) + 1, Len(e.passwd) + 1>>
      [] kind = "host" ->
            <<Len(e.name) + 1>> \o ListSizes(e.aliases)
            \o <<PtrSize * (Len(e.addresses.addrs) + 1)>>
            \o [i \in 1..Len(e.addresses.addrs) |-> IF e.addresses.v = "V4" THEN 4 ELSE 16]

\* the exact number of bytes a record needs
BytesNeeded(kind, e) == SumSeq(AllocSizes(kind, e))

\* ptr refers to NUL-terminated data equal to s
StrField(b, ptr, s) == Terminated(b, ptr) /\ CStrAt(b, ptr) = s

\* ptr refers to a null-terminated array of pointers to the strings of l
StrsField(b, ptr, l) ==
    LET a == PtrArrayAt(b, ptr, Len(l) + 1)
    IN  /\ Len(a) = Len(l)
        /\ \A i \in 1..Len(l) : StrField(b, a[i], l[i])

\* ptr refers to a null-terminated array of pointers to the raw addresses
AddrsField(b, ptr, addrs, n) ==
    LET a == PtrArrayAt(b, ptr, Len(addrs) + 1)
    IN  /\ Len(a) = Len(addrs)
        /\ \A i \in 1..Len(addrs) :
              /\ InRegion(b, a[i], n)
              /\ [j \in 1..n |-> b.mem[(a[i] + j - 1) - b.start]] = addrs[i]

\* the output struct and the region hold the record e
FieldsEqual(kind, e, out, b) ==
    CASE kind = "passwd" ->
            /\ StrField(b, out.name, e.name) /\ StrField(b, out.passwd, e.passwd)
            /\ StrField(b, out.gecos, e.gecos) /\ StrField(b, out.dir, e.dir)
            /\ StrField(b, out.shell, e.shell)
            /\ out.uid = e.uid /\ out.gid = e.gid
      [] kind = "group" ->
            /\ StrField(b, out.name, e.name) /\ StrField(b, out.passwd, e.passwd)
            /\ out.gid = e.gid
            /\ StrsField(b, out.members, e.members)
      [] kind = "shadow" ->
            /\ StrField(b, out.name, e.name) /\ StrField(b, out.passwd, e.passwd)
            /\ out.last_change = e.last_change
            /\ out.change_min_days = e.change_min_days
            /\ out.change_max_days = e.change_max_days
            /\ out.change_warn_days = e.change_warn_days
            /\ out.change_inactive_days = e.change_inactive_days
            /\ out.expire_date = e.expire_date
            /\ out.reserved = e.reserved
      [] kind = "host" ->
            /\ StrField(b, out.name, e.name)
            /\ StrsField(b, out.h_aliases, e.aliases)
            /\ out.h_addrtype = (IF e.addresses.v = "V4" THEN 2 ELSE 10)
            /\ out.h_length = (IF e.addresses.v = "V4" THEN 4 ELSE 16)
            /\ AddrsField(b, out.h_addr_list, e.addresses.addrs, out.h_length)

\* a Response::to_c call on Success(record) that returned
Marshaled == call.op = "to_c" /\ call.resp.tag = "Success" /\ call.r.tag = "ret"

\* the buffer of the last to_c call as marshaling started: new, then clear
FreshBuffer ==
    clear(CBuffer_new(call.start, call.buflen,
                      [o \in 0..(call.buflen - 1) |-> call.env.fill]))

-----------------------------------------------------------------------------
(* C4 *)

\* C4: Response::to_c applied to Success(record): if marshaling the record
\* succeeds, the status is Success (1) and errno is set to 0; if marshaling
\* fails with a capacity error, the status is TryAgain (-2) and errno is set
\* to ERANGE.
C4_ToCStatusErrno ==
    (call.op = "to_c" /\ call.resp.tag = "Success") =>
        LET m == Entity_to_c(call.kind, call.resp.val, Result0(call.kind), FreshBuffer)
        IN  /\ m.tag = "ok" =>
                call.r.tag = "ret" /\ call.r.status = 1 /\ call.r.errno = 0
            /\ (m.tag = "err" /\ m.val = ERANGE) =>
                call.r.tag = "ret" /\ call.r.status = 0 - 2 /\ call.r.errno = ERANGE

\* a record marshaled with success while errno held a stale value
C4_Witness ==
    /\ Marshaled
    /\ call.env.errno # 0
    /\ call.r.status = 1
    /\ call.r.errno = 0

-----------------------------------------------------------------------------
(* C5 *)

\* C5: whenever a passwd, group, shadow or host record is marshaled into a
\* buffer whose capacity is at least the exact number of bytes the record needs,
\* the call that returns reports Success, and every pointer field of the output
\* struct refers to NUL-terminated data (null-terminated pointer arrays) equal
\* to the record's field, the scalars being copied by value.
C5_MarshalFits ==
    (Marshaled /\ call.buflen >= BytesNeeded(call.kind, call.resp.val)) =>
        /\ call.r.status = 1
        /\ FieldsEqual(call.kind, call.resp.val, call.r.out, call.r.buf)

\* a host record with an alias and an address, marshaled into a region of
\* exactly the bytes it needs, over stale memory
C5_Witness ==
    /\ Marshaled
    /\ call.kind = "host"
    /\ call.resp.val.aliases # <<>>
    /\ call.resp.val.addresses.addrs # <<>>
    /\ call.env.fill # 0
    /\ call.buflen = BytesNeeded("host", call.resp.val)
    /\ call.r.status = 1

-----------------------------------------------------------------------------
(* C6 *)

\* C6 as stated: with a capacity exactly one byte less than the record needs,
\* marshaling fails with a capacity error and the buffer's write position is
\* unchanged from before the marshaling call.
C6_AsStated ==
    (Marshaled /\ call.buflen = BytesNeeded(call.kind, call.resp.val) - 1) =>
        /\ call.r.status = 0 - 2
        /\ call.r.errno = ERANGE
        /\ call.r.buf.pos = call.r.buf.start

\* the size of the last allocation of a record
LastAlloc(kind, e) == AllocSizes(kind, e)[Len(AllocSizes(kind, e))]

\* C6, amended: with a capacity exactly one byte less than the record needs,
\* marshaling never succeeds; when the call returns it reports the capacity error
\* (TryAgain, ERANGE), and the write position has moved past every allocation
\* that succeeded before the failing one, which is the record's last: it equals
\* start + needed - size of the last allocation, and position + free = capacity.
C6_PartialWriteKept ==
    (Marshaled /\ call.buflen = BytesNeeded(call.kind, call.resp.val) - 1) =>
        /\ call.r.status = 0 - 2
        /\ call.r.errno = ERANGE
        /\ call.r.buf.pos - call.r.buf.start =
              BytesNeeded(call.kind, call.resp.val) - LastAlloc(call.kind, call.resp.val)
        /\ call.r.buf.free = call.buflen - (call.r.buf.pos - call.r.buf.start)

\* a passwd record one byte short: the call failed and the position moved
C6_Witness ==
    /\ Marshaled
    /\ call.kind = "passwd"
    /\ call.buflen = BytesNeeded("passwd", call.resp.val) - 1
    /\ call.r.status = 0 - 2
    /\ call.r.buf.pos > call.r.buf.start

-----------------------------------------------------------------------------
(* C7 *)

\* C7: a write_str(s) call that returns fails with the capacity error exactly
\* when fewer than len(s)+1 bytes are free; on failure the buffer (bytes,
\* position, free count) is unchanged; on success it returns the position held
\* before the call, and the position advances and the free count decreases by
\* len(s)+1.
C7_WriteStr ==
    [][(bres'.op = "write_str" /\ ncalls' = ncalls + 1 /\ bres'.tag # "panic") =>
        LET need == Len(bres'.arg) + 1
        IN  /\ (bres'.tag = "err") <=> (cb.free < need)
            /\ bres'.tag = "err" => (bres'.val = ERANGE /\ cb' = cb)
            /\ bres'.tag = "ok" =>
                  /\ bres'.val = cb.pos
                  /\ cb'.pos = cb.pos + need
                  /\ cb'.free = cb.free - need]_vars

\* a write_str that failed on a buffer that was partly used and not yet full
C7_Witness ==
    /\ bres.op = "write_str"
    /\ bres.tag = "err"
    /\ cb.pos > cb.start
    /\ cb.free > 0

-----------------------------------------------------------------------------
(* C8 *)

\* C8: after any sequence of write_str, write_strs and reserve calls (and of
\* Host::to_c, which calls reserve and writes through the pointers it got),
\* successful or not: bytes consumed + free = region length, the bytes consumed
\* lie in 0..length, and no byte at or beyond start+length was written.
C8_BufferAccounting ==
    /\ (cb.pos - cb.start) + cb.free = cb.len
    /\ cb.pos - cb.start \in 0..cb.len
    /\ ~cb.oob

\* a call failed on a buffer that earlier calls had filled completely
C8_Witness ==
    /\ ncalls >= 2
    /\ bres.tag = "err"
    /\ cb.free = 0
    /\ cb.len > 0

-----------------------------------------------------------------------------
(* C9 *)

\* C9: after write_strs(L) returned Ok(vec_start): the pointer array at
\* vec_start has Len(L) entries followed by a null pointer, entry i refers to
\* NUL-terminated data equal to L[i], the Len(L)+1 slots lie contiguously from
\* vec_start, and the string bytes follow them in the order of L.
C9_WriteStrsRoundTrip ==
    (bres.op = "write_strs" /\ bres.tag = "ok") =>
        LET L == bres.arg
            n == Len(L)
            vec == bres.val
            a == PtrArrayAt(cb, vec, n + 1)
            strs == vec + PtrSize * (n + 1)
        IN  /\ InRegion(cb, vec, PtrSize * (n + 1))
            /\ Len(a) = n
            /\ PtrAt(cb, vec + PtrSize * n) = 0
            /\ \A i \in 1..n :
                  /\ StrField(cb, a[i], L[i])
                  /\ a[i] = strs + SumSeq([j \in 1..(i - 1) |-> Len(L[j]) + 1])
            /\ cb.pos = strs + SumSeq([j \in 1..n |-> Len(L[j]) + 1])

\* a list of two strings written after an earlier allocation
C9_Witness ==
    /\ bres.op = "write_strs"
    /\ bres.tag = "ok"
    /\ Len(bres.arg) = 2
    /\ bres.val > cb.start

-----------------------------------------------------------------------------
(* C10 *)

\* C10: to_status depends on the variant tag only: Success(_) gives 1,
\* NotFound 0, Unavail -1, TryAgain -2, Return 2, whatever the payload.
C10_StatusOfTag ==
    (call.op = "to_status") =>
        call.status = (CASE call.resp.tag = "Success" -> 1
                         [] call.resp.tag = "NotFound" -> 0
                         [] call.resp.tag = "Unavail" -> 0 - 1
                         [] call.resp.tag = "TryAgain" -> 0 - 2
                         [] call.resp.tag = "Return" -> 2)

\* to_status applied to a Success that carries a record
C10_Witness ==
    /\ call.op = "to_status"
    /\ call.resp.tag = "Success"
    /\ call.resp.val.name # <<>>
    /\ call.status = 1

-----------------------------------------------------------------------------
(* C1 *)

\* C1: after a set*ent that installed the list r0..r(M-1), as long as every
\* get*ent_r call so far was given a buffer large enough for its record, the
\* m-th call that returned gave Success with r(m-1) for m <= M and NotFound
\* for m > M; after end*ent every get*ent_r call that returned gave Unavail.
C1_EnumerationOrder ==
    \A k \in EnumKinds :
        LET s == sess[k]
            M == Len(s.items)
        IN  /\ s.state = "open" =>
                \A m \in 1..Len(s.gets) :
                    (\A j \in 1..m :
                        j > M \/ s.gets[j].buflen >= BytesNeeded(k, s.items[j])) =>
                    IF m <= M
                    THEN s.gets[m].status = 1 /\ s.gets[m].name = s.items[m].name
                    ELSE s.gets[m].status = 0
            /\ s.state = "closed" =>
                \A m \in 1..Len(s.gets) : s.gets[m].status = 0 - 1

\* a list of two records enumerated to its end: r0, r1, NotFound
C1_Witness ==
    \E k \in EnumKinds :
        /\ sess[k].state = "open"
        /\ Len(sess[k].items) = 2
        /\ Len(sess[k].gets) = 3
        /\ sess[k].gets[1].status = 1
        /\ sess[k].gets[2].status = 1
        /\ sess[k].gets[3].status = 0

-----------------------------------------------------------------------------
(* C2 *)

\* C2: a get*ent_r call that returned after its buffer was too small for the
\* current record gave TryAgain with errno ERANGE and left the cursor position
\* where it was before the call; the next call to return, if its buffer is
\* large enough, gives Success with that same record.
C2_RewindOnTryAgain ==
    \A k \in EnumKinds :
        LET s == sess[k]
        IN  s.state = "open" =>
            \A j \in 1..Len(s.gets) :
                LET g == s.gets[j]
                IN  (g.pos < Len(s.items) /\ g.buflen < BytesNeeded(k, s.items[g.pos + 1])) =>
                    /\ g.status = 0 - 2
                    /\ g.errno = ERANGE
                    /\ g.after = g.pos
                    /\ (/\ j < Len(s.gets)
                        /\ s.gets[j + 1].buflen >= BytesNeeded(k, s.items[g.pos + 1])) =>
                            /\ s.gets[j + 1].status = 1
                            /\ s.gets[j + 1].pos = g.pos
                            /\ s.gets[j + 1].name = s.items[g.pos + 1].name

\* the second record was refused for lack of space and then delivered
C2_Witness ==
    \E k \in EnumKinds :
        /\ sess[k].state = "open"
        /\ Len(sess[k].gets) = 3
        /\ sess[k].gets[2].status = 0 - 2
        /\ sess[k].gets[2].pos = 1
        /\ sess[k].gets[3].status = 1
        /\ sess[k].gets[3].pos = 1

-----------------------------------------------------------------------------
(* C3 *)

\* C3: while the threads call get*ent_r on one opened cursor of M records with
\* buffers large enough for every record, no two calls that returned Success
\* observed the same position, each observed the record at its position, and
\* once M calls have returned every one of the M records was observed exactly
\* once, under every interleaving.
C3_EachRecordOnce ==
    \A k \in EnumKinds :
        LET s == sess[k]
            M == Len(s.items)
            ok == {j \in 1..Len(s.gets) : s.gets[j].status = 1}
        IN  (/\ s.state = "open"
             /\ \A j \in 1..Len(s.gets) : \A i \in 1..M :
                    s.gets[j].buflen >= BytesNeeded(k, s.items[i])) =>
            /\ \A i, j \in ok : i # j => s.gets[i].pos # s.gets[j].pos
            /\ \A j \in ok :
                  /\ s.gets[j].pos < M
                  /\ s.gets[j].name = s.items[s.gets[j].pos + 1].name
            /\ Len(s.gets) >= M =>
                  \A p \in 0..(M - 1) : Cardinality({j \in ok : s.gets[j].pos = p}) = 1

\* two threads shared a list of two records, one record each
C3_Witness ==
    \E k \in EnumKinds :
        /\ sess[k].state = "open"
        /\ Len(sess[k].items) = 2
        /\ Len(sess[k].gets) = 2
        /\ sess[k].gets[1].status = 1
        /\ sess[k].gets[2].status = 1
        /\ sess[k].gets[1].t # sess[k].gets[2].t

-----------------------------------------------------------------------------
(* C11 *)

\* C11: whenever to_c turns a response that is not Success (NotFound, Unavail,
\* TryAgain, Return) into a status, errno is set to ENOENT ("no such entry"),
\* the same value for each of the four kinds.
C11_ErrnoSentinel ==
    (call.op = "to_c" /\ call.resp.tag # "Success") =>
        call.r.tag = "ret" /\ call.r.errno = ENOENT

-----------------------------------------------------------------------------
(* C12 *)

\* C12: in every state reachable through set*ent, get*ent_r and end*ent (open,
\* next, previous, close on the cursor), once the calls on a cursor have
\* returned, the index of a cursor that holds a sequence lies between 0 and
\* the length of that sequence.
C12_IndexInRange ==
    \A k \in EnumKinds :
        lock[k] = 0 =>
            /\ iter[k].index >= 0
            /\ iter[k].items.some => iter[k].index <= Len(iter[k].items.v)

-----------------------------------------------------------------------------
(* The single-record lookups by name and by address *)

\* libc::AF_UNSPEC
AF_UNSPEC == 0

\* enum Herrno (netdb.h)
NetDbInternal == -1
NetDbSuccess == 0
Herrno_TryAgain == 2
NoRecovery == 3
NoData == 4

\* a UTF-8 continuation byte
utf8_cont(b) == b >= 128 /\ b <= 191

\* the range of the second byte after the lead byte b of a 3- or 4-byte sequence
utf8_second(b) ==
    CASE b = 224 -> 160..191
      [] b = 237 -> 128..159
      [] b = 240 -> 144..191
      [] b = 244 -> 128..143
      [] OTHER -> 128..191

RECURSIVE utf8_valid(_)
\* the validation of str::from_utf8: well-formed sequences of 1 to 4 bytes, no
\* overlong forms, no surrogates, nothing above U+10FFFF
utf8_valid(bs) ==
    IF bs = <<>> THEN TRUE
    ELSE LET b == bs[1]
             n == Len(bs)
         IN  IF b < 128 THEN utf8_valid(Tail(bs))
             ELSE IF b >= 194 /\ b <= 223
             THEN n >= 2 /\ utf8_cont(bs[2]) /\ utf8_valid(SubSeq(bs, 3, n))
             ELSE IF b >= 224 /\ b <= 239
             THEN /\ n >= 3 /\ bs[2] \in utf8_second(b) /\ utf8_cont(bs[3])
                  /\ utf8_valid(SubSeq(bs, 4, n))
             ELSE IF b >= 240 /\ b <= 244
             THEN /\ n >= 4 /\ bs[2] \in utf8_second(b) /\ utf8_cont(bs[3])
                  /\ utf8_cont(bs[4]) /\ utf8_valid(SubSeq(bs, 5, n))
             ELSE FALSE

\* from_utf8 that takes every byte sequence for a string
from_utf8_lossy(bytes) == [ok |-> TRUE, s |-> bytes]

\* str::from_utf8(cstr.to_bytes()): Ok(the same bytes as a str) or Err
from_utf8(bytes) ==
    IF utf8_valid(bytes) THEN [ok |-> TRUE, s |-> bytes] ELSE [ok |-> FALSE, s |-> <<>>]

\* what an entry point hands back besides the result of to_c: the backend
\* calls it made, in order
Called(r, calls) == r @@ [calls |-> calls]

\* ... and the value it leaves in *h_errnop
WithHerrno(r, h_errno) == r @@ [h_errno |-> h_errno]

\* an entry point that returns a status without calling to_c
Returned(status, result, start, region, buflen, errno) ==
    [tag |-> "ret", status |-> status, errno |-> errno, out |-> result,
     buf |-> CBuffer_new(start, buflen, region)]

\* hooks::get_entry_by_name(name): a hook is the answers of the backend
get_entry_by_name(hook, name) == hook.byname

\* _nss_*_getpwnam_r, _getgrnam_r and _getspnam_r, by entity kind
getnam_r(kind, name_, result, start, region, buflen, errno, hook) ==
    IF from_utf8(name_).ok
    THEN Called(Response_to_c(get_entry_by_name(hook, from_utf8(name_).s), kind, result,
                              start, region, buflen, errno),
                <<[hook |-> "get_entry_by_name", name |-> from_utf8(name_).s]>>)
    ELSE Called(Response_to_c(Bare("NotFound"), kind, result, start, region, buflen, errno),
                <<>>)

\* HostHooks::get_host_by_name(name, family)
get_host_by_name(hook, name, family) == IF family = "IPv4" THEN hook.v4 ELSE hook.v6

\* the backend call as it is recorded
ByNameCall(name, family) == [hook |-> "get_host_by_name", name |-> name, family |-> family]

\* the dispatch that falls back to IPv6 on every outcome but Success
host_dispatch_eager(hook, name, family, h_errno) ==
    CASE family = AF_INET ->
            [resp |-> get_host_by_name(hook, name, "IPv4"), h_errno |-> h_errno,
             calls |-> <<ByNameCall(name, "IPv4")>>]
      [] family = AF_INET6 ->
            [resp |-> get_host_by_name(hook, name, "IPv6"), h_errno |-> h_errno,
             calls |-> <<ByNameCall(name, "IPv6")>>]
      [] family = AF_UNSPEC ->
            IF get_host_by_name(hook, name, "IPv4").tag # "Success"
            THEN [resp |-> get_host_by_name(hook, name, "IPv6"), h_errno |-> h_errno,
                  calls |-> <<ByNameCall(name, "IPv4"), ByNameCall(name, "IPv6")>>]
            ELSE [resp |-> get_host_by_name(hook, name, "IPv4"), h_errno |-> h_errno,
                  calls |-> <<ByNameCall(name, "IPv4")>>]
      [] OTHER -> [resp |-> Bare("Unavail"), h_errno |-> NoRecovery, calls |-> <<>>]

\* "match family" of gethostbyname2_r: the response to marshal, the backend
\* calls made for it, and *h_errnop after it
host_dispatch(hook, name, family, h_errno) ==
    CASE family = AF_INET ->
            [resp |-> get_host_by_name(hook, name, "IPv4"), h_errno |-> h_errno,
             calls |-> <<ByNameCall(name, "IPv4")>>]
      [] family = AF_INET6 ->
            [resp |-> get_host_by_name(hook, name, "IPv6"), h_errno |-> h_errno,
             calls |-> <<ByNameCall(name, "IPv6")>>]
      [] family = AF_UNSPEC ->
            IF get_host_by_name(hook, name, "IPv4").tag = "NotFound"
            THEN [resp |-> get_host_by_name(hook, name, "IPv6"), h_errno |-> h_errno,
                  calls |-> <<ByNameCall(name, "IPv4"), ByNameCall(name, "IPv6")>>]
            ELSE [resp |-> get_host_by_name(hook, name, "IPv4"), h_errno |-> h_errno,
                  calls |-> <<ByNameCall(name, "IPv4")>>]
      [] OTHER -> [resp |-> Bare("Unavail"), h_errno |-> NoRecovery, calls |-> <<>>]

\* "match status" of gethostbyname2_r
Herrno_of(status) ==
    CASE status = NssSuccess -> NetDbSuccess
      [] status = NssTryAgain -> Herrno_TryAgain
      [] status = NssUnavail -> NoRecovery
      [] status = NssNotFound -> NoData
      [] OTHER -> NetDbInternal

\* the rest of the Ok(name) arm once to_c has returned r for the dispatch d
name2_status(d, r) ==
    IF r.tag = "panic" THEN WithHerrno(Called(r, d.calls), d.h_errno)
    ELSE WithHerrno(Called(r, d.calls), Herrno_of(r.status))

\* the Ok(name) arm of gethostbyname2_r for the dispatch d
name2_to_c(d, result, start, region, buflen, errno) ==
    name2_status(d, Response_to_c(d.resp, "host", result, start, region, buflen, errno))

\* _nss_*_gethostbyname2_r; name is the bytes of the C string
gethostbyname2_r(name, family, result, start, region, buflen, errno, h_errno, hook) ==
    IF from_utf8(name).ok
    THEN name2_to_c(host_dispatch(hook, from_utf8(name).s, family, h_errno),
                    result, start, region, buflen, errno)
    ELSE WithHerrno(Called(Returned(NssNotFound, result, start, region, buflen, errno), <<>>),
                    h_errno)

\* _nss_*_gethostbyname_r
gethostbyname_r(name, result, start, region, buflen, errno, h_errno, hook) ==
    gethostbyname2_r(name, AF_UNSPEC, result, start, region, buflen, errno, h_errno, hook)

\* gethostbyname3_r that leaves *ttlp and *canonp alone
name3_outputs_skip(r2, name, ttlp, canonp, ttl, canon) ==
    r2 @@ [ttl |-> ttl, canon |-> canon]

\* "if !ttlp.is_null() { *ttlp = 0 }  if !canonp.is_null() { *canonp = name }":
\* ttl and canon are the values of the caller's two cells, name the pointer
name3_outputs(r2, name, ttlp, canonp, ttl, canon) ==
    IF r2.tag = "panic" THEN r2 @@ [ttl |-> ttl, canon |-> canon]
    ELSE r2 @@ [ttl |-> IF ttlp # 0 THEN 0 ELSE ttl,
                canon |-> IF canonp # 0 THEN name ELSE canon]

\* _nss_*_gethostbyname3_r; name is the pointer, cstr the bytes it points at
gethostbyname3_r(name, cstr, family, result, start, region, buflen, errno, h_errno, ttlp, canonp, ttl, canon, hook) ==
    name3_outputs(gethostbyname2_r(cstr, family, result, start, region, buflen, errno,
                                   h_errno, hook),
                  name, ttlp, canonp, ttl, canon)

\* the conversion that takes a 4-byte address whatever the family says
convert_addr_lax(addr, len, format) ==
    IF len = 4 THEN [ok |-> TRUE, a |-> [v |-> "V4", octets |-> SubSeq(addr, 1, 4)]]
    ELSE IF len = 16 /\ format = AF_INET6
    THEN [ok |-> TRUE, a |-> [v |-> "V6", octets |-> SubSeq(addr, 1, 16)]]
    ELSE [ok |-> FALSE, a |-> <<>>]

\* "match (len, format)" of gethostbyaddr_r: the IpAddr, or the early return
convert_addr(addr, len, format) ==
    IF len = 4 /\ format = AF_INET
    THEN [ok |-> TRUE, a |-> [v |-> "V4", octets |-> SubSeq(addr, 1, 4)]]
    ELSE IF len = 16 /\ format = AF_INET6
    THEN [ok |-> TRUE, a |-> [v |-> "V6", octets |-> SubSeq(addr, 1, 16)]]
    ELSE [ok |-> FALSE, a |-> <<>>]

\* HostHooks::get_host_by_addr(addr)
get_host_by_addr(hook, a) == hook.byaddr

\* the match on the backend's response, then to_c
addr_to_c(response, a, result, start, region, buflen, errno) ==
    WithHerrno(Called(Response_to_c(response, "host", result, start, region, buflen, errno),
                      <<[hook |-> "get_host_by_addr", addr |-> a]>>),
               IF response.tag = "Success" THEN NetDbSuccess ELSE NetDbInternal)

\* _nss_*_gethostbyaddr_r; addr is the bytes the pointer refers to
gethostbyaddr_r(addr, len, format, result, start, region, buflen, errno, h_errno, hook) ==
    IF convert_addr(addr, len, format).ok
    THEN addr_to_c(get_host_by_addr(hook, convert_addr(addr, len, format).a),
                   convert_addr(addr, len, format).a,
                   result, start, region, buflen, errno)
    ELSE WithHerrno(Called(Returned(NssNotFound, result, start, region, buflen, errno), <<>>),
                    NetDbInternal)

-----------------------------------------------------------------------------
(* Specification SpecLookup: one call of a lookup entry point, on every       *)
(* argument and every answer of the backend hooks                             *)

\* names as the caller passes them: ASCII, a two-byte character, and three
\* byte strings that are not UTF-8 (a stray 0xFF, a cut sequence, a surrogate)
NameArgs == {<<97>>, <<195, 169>>, <<255>>, <<195>>, <<237, 160, 128>>}

\* the family / format argument: AF_UNSPEC, AF_INET, AF_INET6 and AF_UNIX
Families == {AF_UNSPEC, AF_INET, AF_INET6, 1}

\* the len argument of gethostbyaddr_r
AddrLens == {0, 4, 16}

\* the 16 bytes behind the addr pointer
AddrBytes == [i \in 1..16 |-> IF i = 1 THEN 10 ELSE IF i = 16 THEN 1 ELSE 0]

\* the records a backend answers with
HostV4 == [name |-> <<104>>, aliases |-> <<>>,
           addresses |-> [v |-> "V4", addrs |-> << <<10, 0, 0, 1>> >>]]

HostV6 == [name |-> <<104>>, aliases |-> <<>>,
           addresses |-> [v |-> "V6", addrs |-> <<AddrBytes>>]]

ShadowRecord == [name |-> <<97>>, passwd |-> <<33>>, last_change |-> 19000,
                 change_min_days |-> 0, change_max_days |-> 99999,
                 change_warn_days |-> 7, change_inactive_days |-> 0 - 1,
                 expire_date |-> 0 - 1, reserved |-> 0]

LookupRecord(kind) ==
    CASE kind = "shadow" -> ShadowRecord
      [] kind = "host" -> HostV4
      [] OTHER -> EnumRecord(kind, <<97>>)

\* what a hook may answer with the record rec
Answers(rec) == {Success(rec)} \cup {Bare(t) : t \in Tags \ {"Success"}}

\* the backends: the answer of each hook
NamHooks(kind) == [byname : Answers(LookupRecord(kind))]

NameHooks == [v4 : Answers(HostV4), v6 : Answers(HostV6)]

AddrHooks == [byaddr : Answers(HostV4)]

\* the caller's memory before the call: region fill, errno and h_errno
LookupEnvs == {[fill |-> 0, errno |-> 0, h_errno |-> 0],
               [fill |-> 170, errno |-> 11, h_errno |-> 77]}

\* the ttlp and canonp arguments: null or the address of a cell
OutPtrs == {0, 64}

\* the arguments every entry point has
LookupArgs(fn, kind, hooks) ==
    [op : {"pending"}, fn : {fn}, kind : {kind}, hook : hooks, buflen : GetBufLens,
     start : BufStarts, env : LookupEnvs]

\* the arguments of one call
LookupInputs ==
    UNION {
        {a @@ [name |-> n] :
            a \in UNION {LookupArgs(fn, "host", NameHooks) :
                            fn \in {"gethostbyname_r"}},
            n \in NameArgs},
        {a @@ [name |-> n, family |-> f] :
            a \in LookupArgs("gethostbyname2_r", "host", NameHooks),
            n \in NameArgs, f \in Families},
        {a @@ [name |-> n, family |-> f, ttlp |-> t, canonp |-> c] :
            a \in LookupArgs("gethostbyname3_r", "host", NameHooks),
            n \in NameArgs, f \in Families, t \in OutPtrs, c \in OutPtrs},
        {a @@ [len |-> l, format |-> f] :
            a \in LookupArgs("gethostbyaddr_r", "host", AddrHooks),
            l \in AddrLens, f \in Families},
        {a @@ [name |-> n] :
            a \in UNION {LookupArgs("getnam_r", kind, NamHooks(kind)) :
                            kind \in {"passwd", "group", "shadow"}},
            n \in NameArgs}}

InitLookup ==
    /\ cb = CBuffer_new(16, 0, <<>>)
    /\ bres = NoCall
    /\ ncalls = 0
    /\ call \in LookupInputs
    /\ CursorIdle

\* the caller's region before the call
Region == [o \in 0..(call.buflen - 1) |-> call.env.fill]

\* the call returns r
Finish(fn, r) ==
    /\ call.op = "pending"
    /\ call.fn = fn
    /\ call' = [call EXCEPT !.op = "done"] @@ [r |-> r]
    /\ UNCHANGED <<bufvars, curvars>>

DoGetNam(kind) ==
    /\ call.kind = kind
    /\ Finish("getnam_r",
              getnam_r(kind, call.name, Result0(kind), call.start, Region, call.buflen,
                       call.env.errno, call.hook))

GetPwNam == DoGetNam("passwd")

GetGrNam == DoGetNam("group")

GetSpNam == DoGetNam("shadow")

GetHostByName ==
    Finish("gethostbyname_r",
           gethostbyname_r(call.name, CHost0, call.start, Region, call.buflen,
                           call.env.errno, call.env.h_errno, call.hook))

GetHostByName2 ==
    Finish("gethostbyname2_r",
           gethostbyname2_r(call.name, call.family, CHost0, call.start, Region,
                            call.buflen, call.env.errno, call.env.h_errno, call.hook))

\* the name pointer is 8; the ttl and canon cells hold 77 and 0 before the call
GetHostByName3 ==
    Finish("gethostbyname3_r",
           gethostbyname3_r(8, call.name, call.family, CHost0, call.start, Region,
                            call.buflen, call.env.errno, call.env.h_errno,
                            call.ttlp, call.canonp, 77, 0, call.hook))

GetHostByAddr ==
    Finish("gethostbyaddr_r",
           gethostbyaddr_r(AddrBytes, call.len, call.format, CHost0, call.start, Region,
                           call.buflen, call.env.errno, call.env.h_errno, call.hook))

NextLookup ==
    \/ GetPwNam \/ GetGrNam \/ GetSpNam
    \/ GetHostByName \/ GetHostByName2 \/ GetHostByName3 \/ GetHostByAddr

SpecLookup == InitLookup /\ [][NextLookup]_vars

-----------------------------------------------------------------------------
(* What the lookup claims are stated with *)

\* the names of NameArgs that are not UTF-8
NotUtf8 == {<<255>>, <<195>>, <<237, 160, 128>>}

\* a host lookup by name has returned
NameLookupDone ==
    /\ call.op = "done"
    /\ call.fn \in {"gethostbyname_r", "gethostbyname2_r", "gethostbyname3_r"}

\* the family a host lookup by name was asked for
AskedFamily == IF call.fn = "gethostbyname_r" THEN 0 ELSE call.family

\* the call gave what marshaling the response resp gives
GaveResultOf(resp) ==
    LET e == Response_to_c(resp, "host", CHost0, call.start, Region, call.buflen,
                           call.env.errno)
    IN  call.r.status = e.status /\ call.r.out = e.out /\ call.r.errno = e.errno

-----------------------------------------------------------------------------
(* C13 *)

\* C13: a host lookup by name (with a name that is UTF-8) asked for an
\* unspecified family calls the backend for IPv4 first, and for IPv6 afterwards
\* if and only if the IPv4 answer was NotFound; the result is then that of the
\* IPv6 answer, and otherwise that of the IPv4 answer.  Asked for IPv4 or for
\* IPv6 it makes exactly one backend call, for that family.
C13_FamilyDispatch ==
    (NameLookupDone /\ call.name \notin NotUtf8) =>
        LET calls == call.r.calls
        IN  /\ AskedFamily = 2 =>
                /\ Len(calls) = 1 /\ calls[1].family = "IPv4"
                /\ GaveResultOf(call.hook.v4)
            /\ AskedFamily = 10 =>
                /\ Len(calls) = 1 /\ calls[1].family = "IPv6"
                /\ GaveResultOf(call.hook.v6)
            /\ AskedFamily = 0 =>
                /\ Len(calls) >= 1 /\ calls[1].family = "IPv4"
                /\ Len(calls) = 2 <=> call.hook.v4.tag = "NotFound"
                /\ Len(calls) <= 2
                /\ IF call.hook.v4.tag = "NotFound"
                   THEN calls[2].family = "IPv6" /\ GaveResultOf(call.hook.v6)
                   ELSE GaveResultOf(call.hook.v4)

\* an unspecified-family lookup found nothing for IPv4 and returned the IPv6
\* record
C13_Witness ==
    /\ NameLookupDone
    /\ call.name \notin NotUtf8
    /\ AskedFamily = 0
    /\ call.hook.v4.tag = "NotFound"
    /\ call.hook.v6.tag = "Success"
    /\ Len(call.r.calls) = 2
    /\ call.r.status = 1
    /\ call.r.out.h_addrtype = 10

-----------------------------------------------------------------------------
(* C14 *)

\* C14: after every host lookup by name, for every name (UTF-8 or not) and
\* every family, h_errno holds the value that goes with the returned status:
\* 0 for Success, 2 for TryAgain, 3 for Unavail, 4 for NotFound, -1 otherwise.
C14_HerrnoMatchesStatus ==
    NameLookupDone =>
        call.r.h_errno = CASE call.r.status = 1 -> 0
                           [] call.r.status = 0 - 2 -> 2
                           [] call.r.status = 0 - 1 -> 3
                           [] call.r.status = 0 -> 4
                           [] OTHER -> 0 - 1

-----------------------------------------------------------------------------
(* C15 *)

\* C15: a host lookup by address calls the backend exactly when (len, format)
\* is (4, AF_INET) or (16, AF_INET6); for every other combination it returns
\* NotFound, makes no backend call and leaves the output struct and the
\* buffer as they were.
C15_AddrFamilyAgree ==
    (call.op = "done" /\ call.fn = "gethostbyaddr_r") =>
        LET agree == \/ call.len = 4 /\ call.format = 2
                     \/ call.len = 16 /\ call.format = 10
        IN  /\ Len(call.r.calls) = (IF agree THEN 1 ELSE 0)
            /\ ~agree =>
                /\ call.r.status = 0
                /\ call.r.out = CHost0
                /\ call.r.buf.mem = Region
                /\ call.r.buf.pos = call.start

\* four bytes passed as an IPv6 address, a backend that knows the host, stale
\* memory: NotFound
C15_Witness ==
    /\ call.op = "done"
    /\ call.fn = "gethostbyaddr_r"
    /\ call.len = 4
    /\ call.format = 10
    /\ call.hook.byaddr.tag = "Success"
    /\ call.env.fill = 170
    /\ call.buflen = MaxBuf
    /\ call.r.status = 0

-----------------------------------------------------------------------------
(* C16 *)

\* C16: a passwd, group, shadow or host lookup by name whose name is not
\* UTF-8 returns NotFound and makes no backend call.
C16_NotUtf8IsNotFound ==
    (/\ call.op = "done"
     /\ call.fn \in {"getnam_r", "gethostbyname_r", "gethostbyname2_r", "gethostbyname3_r"}
     /\ call.name \in NotUtf8) =>
        call.r.status = 0 /\ call.r.calls = <<>>

\* a surrogate code point as a shadow name, a stray 0xFF as a host name, with
\* backends that would have answered Success
C16_Witness ==
    /\ call.op = "done"
    /\ \/ call.kind = "shadow" /\ call.name = <<237, 160, 128>>
          /\ call.hook.byname.tag = "Success"
       \/ call.kind = "host" /\ call.fn = "gethostbyname2_r" /\ call.name = <<255>>
          /\ call.family = 2 /\ call.hook.v4.tag = "Success"
    /\ call.r.status = 0

-----------------------------------------------------------------------------
(* C18 *)

\* C18: gethostbyname3_r returns the status gethostbyname2_r returns on the
\* same arguments, whatever it is; it stores 0 through ttlp and the name
\* pointer through canonp when, and only when, that pointer is not null.
C18_Name3Outputs ==
    (call.op = "done" /\ call.fn = "gethostbyname3_r") =>
        /\ call.r.status =
              gethostbyname2_r(call.name, call.family, CHost0, call.start, Region,
                               call.buflen, call.env.errno, call.env.h_errno,
                               call.hook).status
        /\ call.r.ttl = (IF call.ttlp # 0 THEN 0 ELSE 77)
        /\ call.r.canon = (IF call.canonp # 0 THEN 8 ELSE 0)

\* a lookup that failed with Unavail still reported ttl 0, and left the
\* canonical name alone as canonp was null
C18_Witness ==
    /\ call.op = "done"
    /\ call.fn = "gethostbyname3_r"
    /\ call.r.status = 0 - 1
    /\ call.ttlp # 0
    /\ call.canonp = 0
    /\ call.r.ttl = 0
    /\ call.r.canon = 0

-----------------------------------------------------------------------------
(* C17 *)

\* C17: every set*ent, get*ent_r and end*ent call ends by returning one of the
\* five status codes, whatever the backend returned and whatever bytes its
\* records hold (a NUL inside a string included): no call panics, and the
\* process is never aborted.
C17_AlwaysReturns ==
    /\ ~aborted
    /\ \A t \in Threads : th[t].pc # "panicked"
    /\ \A k \in EnumKinds : \A j \in 1..Len(sess[k].gets) :
          sess[k].gets[j].status \in {0 - 2, 0 - 1, 0, 1, 2}

-----------------------------------------------------------------------------
(* The authd backend: the hooks that ask the authd daemon over gRPC *)

\* tonic::Code
Codes == {"Ok", "Cancelled", "Unknown", "InvalidArgument", "DeadlineExceeded",
          "NotFound", "AlreadyExists", "PermissionDenied", "ResourceExhausted",
          "FailedPrecondition", "Aborted", "OutOfRange", "Unimplemented",
          "Internal", "Unavailable", "DataLoss", "Unauthenticated"}

\* the conversion that asks the caller to retry after a deadline
grpc_status_to_nss_response_retry(status) ==
    CASE status.code = "NotFound" -> Bare("NotFound")
      [] status.code = "DeadlineExceeded" -> Bare("TryAgain")
      [] OTHER -> Bare("Unavail")

\* grpc_status_to_nss_response(status)
grpc_status_to_nss_response(status) ==
    CASE status.code = "NotFound" -> Bare("NotFound")
      [] OTHER -> Bare("Unavail")

\* user_to_passwd_entry(entry)
user_to_passwd_entry(entry) ==
    [name |-> entry.name, passwd |-> <<120>>, uid |-> entry.uid, gid |-> entry.gid,
     gecos |-> entry.gecos, dir |-> entry.homedir, shell |-> entry.shell]

\* authd_group_to_group_entry(group)
authd_group_to_group_entry(group) ==
    [name |-> group.name, passwd |-> group.passwd, gid |-> group.gid,
     members |-> group.members]

\* usize::MAX: all 64 bits set, written here as the signed reading of that word
usize_MAX == 0 - 1

\* shadow_entry_to_shadow(entry)
shadow_entry_to_shadow(entry) ==
    [name |-> entry.name, passwd |-> entry.passwd, last_change |-> entry.last_change,
     change_min_days |-> entry.change_min_days,
     change_max_days |-> entry.change_max_days,
     change_warn_days |-> entry.change_warn_days,
     change_inactive_days |-> entry.change_inactive_days,
     expire_date |-> entry.expire_date, reserved |-> usize_MAX]

\* the conversion of one message of the daemon, by entity kind
to_entry(kind, msg) ==
    CASE kind = "passwd" -> user_to_passwd_entry(msg)
      [] kind = "group" -> authd_group_to_group_entry(msg)
      [] kind = "shadow" -> shadow_entry_to_shadow(msg)

\* users_to_passwd_entries and its group and shadow counterparts
to_entries(kind, msgs) == [i \in 1..Len(msgs) |-> to_entry(kind, msgs[i])]

\* "pam_unix_non_existent:", the name PAM asks for to even out timing
PamFakeName == <<112, 97, 109, 95, 117, 110, 105, 120, 95, 110, 111, 110, 95,
                 101, 120, 105, 115, 116, 101, 110, 116, 58>>

\* the answer of a hook and whether it sent its request
Answer(resp, sent) == [resp |-> resp, sent |-> sent]

\* "match client.rpc(req).await": Ok(r) is converted, Err(e) goes through
\* grpc_status_to_nss_response
rpc_match(kind, many, reply) ==
    IF reply.ok
    THEN Success(IF many THEN to_entries(kind, reply.val) ELSE to_entry(kind, reply.val))
    ELSE grpc_status_to_nss_response(reply.err)

\* the body shared by the hooks: build the runtime, connect, send the request.
\* env says whether the runtime can be built, whether new_client() succeeds,
\* and what the daemon (or the request timeout) replies
authd_rpc(kind, many, env) ==
    IF ~env.rt THEN Answer(Bare("Unavail"), FALSE)
    ELSE IF ~env.conn THEN Answer(Bare("Unavail"), FALSE)
    ELSE Answer(rpc_match(kind, many, env.reply), TRUE)

\* get_all_entries() of passwd, group and shadow
authd_get_all_entries(kind, env) == authd_rpc(kind, TRUE, env)

\* get_entry_by_uid(uid) and get_entry_by_gid(gid)
authd_get_entry_by_id(kind, id, env) == authd_rpc(kind, FALSE, env)

authd_get_entry_by_name_sends(kind, name, env) == authd_rpc(kind, FALSE, env)

\* get_entry_by_name(name); passwd answers the PAM name itself once connected
authd_get_entry_by_name(kind, name, env) ==
    IF kind = "passwd" /\ env.rt /\ env.conn /\ name = PamFakeName
    THEN Answer(Bare("NotFound"), FALSE)
    ELSE authd_rpc(kind, FALSE, env)

-----------------------------------------------------------------------------
(* Specification SpecBackend: one call of an authd hook, in every environment *)

\* the messages of the daemon
UserMsg == [name |-> <<97>>, uid |-> 1000, gid |-> 2000, gecos |-> <<>>,
            homedir |-> <<47>>, shell |-> <<>>]

GroupMsg == [name |-> <<97>>, passwd |-> <<120>>, gid |-> 2000, members |-> << <<97>> >>]

ShadowMsg == [name |-> <<97>>, passwd |-> <<33>>, last_change |-> 19000,
              change_min_days |-> 0, change_max_days |-> 99999,
              change_warn_days |-> 7, change_inactive_days |-> 0 - 1,
              expire_date |-> 0 - 1]

Msg(kind) ==
    CASE kind = "passwd" -> UserMsg
      [] kind = "group" -> GroupMsg
      [] kind = "shadow" -> ShadowMsg

\* what the request ends with: a reply, or a gRPC status of any code
Replies(kind, many) ==
    {[ok |-> TRUE, val |-> IF many THEN <<Msg(kind), Msg(kind)>> ELSE Msg(kind)]}
    \cup {[ok |-> FALSE, err |-> [code |-> c]] : c \in Codes}

BackendEnvs(kind, many) == [rt : BOOLEAN, conn : BOOLEAN, reply : Replies(kind, many)]

BackendInputs ==
    UNION {
        UNION {[op : {"pending"}, fn : {"get_all_entries"}, kind : {kind},
                env : BackendEnvs(kind, TRUE)] : kind \in {"passwd", "group", "shadow"}},
        UNION {[op : {"pending"}, fn : {"get_entry_by_id"}, kind : {kind}, id : {1000, 7},
                env : BackendEnvs(kind, FALSE)] : kind \in {"passwd", "group"}},
        UNION {[op : {"pending"}, fn : {"get_entry_by_name"}, kind : {kind},
                name : {<<97>>, PamFakeName},
                env : BackendEnvs(kind, FALSE)] : kind \in {"passwd", "group", "shadow"}}}

InitBackend ==
    /\ cb = CBuffer_new(16, 0, <<>>)
    /\ bres = NoCall
    /\ ncalls = 0
    /\ call \in BackendInputs
    /\ CursorIdle

HookGetAllEntries ==
    Finish("get_all_entries", authd_get_all_entries(call.kind, call.env))

HookGetEntryById ==
    Finish("get_entry_by_id", authd_get_entry_by_id(call.kind, call.id, call.env))

HookGetEntryByName ==
    Finish("get_entry_by_name", authd_get_entry_by_name(call.kind, call.name, call.env))

NextBackend == HookGetAllEntries \/ HookGetEntryById \/ HookGetEntryByName

SpecBackend == InitBackend /\ [][NextBackend]_vars

-----------------------------------------------------------------------------
(* C19 *)

\* C19: an authd hook whose request ended with a gRPC status of code NotFound
\* answers NotFound; when the request ended with any other gRPC status (a
\* deadline that passed included), when the connection failed, or when the
\* runtime could not be built, it answers Unavail; a failure is never
\* answered with Success, TryAgain or Return.
C19_BackendFailures ==
    call.op = "done" =>
        LET failed == ~call.env.rt \/ ~call.env.conn
                      \/ (call.r.sent /\ ~call.env.reply.ok)
        IN  /\ (~call.env.rt \/ ~call.env.conn) => call.r.resp.tag = "Unavail"
            /\ (call.r.sent /\ ~call.env.reply.ok) =>
                  call.r.resp.tag = (IF call.env.reply.err.code = "NotFound"
                                     THEN "NotFound" ELSE "Unavail")
            /\ failed => call.r.resp.tag \in {"NotFound", "Unavail"}

\* a group lookup by name whose request ran into its deadline: Unavail
C19_Witness ==
    /\ call.op = "done"
    /\ call.fn = "get_entry_by_name"
    /\ call.kind = "group"
    /\ call.r.sent
    /\ ~call.env.reply.ok
    /\ call.env.reply.err.code = "DeadlineExceeded"
    /\ call.r.resp.tag = "Unavail"

-----------------------------------------------------------------------------
(* C20 *)

\* C20: while the threads call get*ent_r on one opened cursor with buffers of
\* different sizes, every call that returned entered at the position the calls
\* before it left behind (one step for each that did not fail with TryAgain),
\* a call that failed with TryAgain left the position it found, and the
\* records returned with Success, over all threads, are r0, r1, ... in list
\* order, none skipped and none repeated.
C20_SerializedRetries ==
    \A k \in EnumKinds :
        LET s == sess[k]
            kept(j) == Cardinality({i \in 1..(j - 1) : s.gets[i].status # 0 - 2})
            given(j) == Cardinality({i \in 1..(j - 1) : s.gets[i].status = 1})
        IN  s.state = "open" =>
            \A j \in 1..Len(s.gets) :
                /\ s.gets[j].pos = kept(j)
                /\ s.gets[j].status = 0 - 2 => s.gets[j].after = s.gets[j].pos
                /\ s.gets[j].status = 1 =>
                      /\ given(j) < Len(s.items)
                      /\ s.gets[j].pos = given(j)
                      /\ s.gets[j].name = s.items[given(j) + 1].name

\* one thread was refused r0 for lack of space, the other thread then got r0,
\* and the first thread, with a larger buffer, got r1
C20_Witness ==
    \E k \in EnumKinds :
        /\ sess[k].state = "open"
        /\ Len(sess[k].gets) = 3
        /\ sess[k].gets[1].status = 0 - 2
        /\ sess[k].gets[2].status = 1
        /\ sess[k].gets[2].pos = 0
        /\ sess[k].gets[2].t # sess[k].gets[1].t
        /\ sess[k].gets[3].status = 1
        /\ sess[k].gets[3].pos = 1
        /\ sess[k].gets[3].t = sess[k].gets[1].t

-----------------------------------------------------------------------------
(* C21 *)

\* C21: a set*ent call whose list-all response was Success(records) returned
\* Success and left the Iterator holding exactly those records at index 0,
\* whatever it held before (nothing, a partly consumed list, an exhausted one)
\* and also when the list is empty; after an empty list was installed the
\* first get*ent_r call to return found NotFound.
C21_OpenInstalls ==
    \A k \in EnumKinds :
        LET s == sess[k]
        IN  /\ (s.last.fn = "set" /\ s.last.resp = "Success") =>
                  /\ s.last.status = 1
                  /\ s.state = "open"
                  /\ s.last.after = [items |-> Some(s.items), index |-> 0]
            /\ (s.state = "open" /\ s.gets = <<>> /\ lock[k] = 0) =>
                  iter[k] = [items |-> Some(s.items), index |-> 0]
            /\ (s.state = "open" /\ s.items = <<>> /\ s.gets # <<>>) =>
                  s.gets[1].resp = "NotFound" /\ s.gets[1].status = 0

\* an empty list installed over a partly consumed list of two records, and
\* the first call after it
C21_Witness ==
    \E k \in EnumKinds :
        /\ sess[k].last.fn = "set"
        /\ sess[k].last.resp = "Success"
        /\ sess[k].last.before = [some |-> TRUE, index |-> 1, len |-> 2]
        /\ sess[k].items = <<>>
        /\ Len(sess[k].gets) = 1
        /\ sess[k].gets[1].status = 0

-----------------------------------------------------------------------------
(* C22 *)

\* C22: next() on an Iterator that holds no sequence (never opened, or closed)
\* gives Unavail on every call, and on an Iterator that holds a sequence it
\* gives Success or NotFound, never Unavail; an end*ent call always returns
\* Success and leaves the Iterator without a sequence at index 0, also when
\* it was closed already, and closing twice is the same as closing once.
C22_ClosedIsNotExhausted ==
    \A k \in EnumKinds :
        LET s == sess[k]
        IN  /\ \A t \in Threads :
                  (/\ th[t].pc \in {"get_matched", "get_advanced", "get_marshaled"}
                   /\ th[t].k = k) =>
                      IF iter[k].items.some
                      THEN th[t].resp.tag \in {"Success", "NotFound"}
                      ELSE th[t].resp.tag = "Unavail"
            /\ s.state \in {"never", "closed"} =>
                  \A j \in 1..Len(s.gets) :
                      s.gets[j].resp = "Unavail" /\ s.gets[j].status = 0 - 1
            /\ s.state = "open" =>
                  \A j \in 1..Len(s.gets) : s.gets[j].resp \in {"Success", "NotFound"}
            /\ s.last.fn = "end" =>
                  /\ s.last.status = 1
                  /\ s.last.after = Iterator_new
                  /\ s.state = "closed"
            /\ (s.state = "closed" /\ lock[k] = 0 /\ s.gets = <<>>) => iter[k] = Iterator_new
            /\ close(close(iter[k]).it) = close(iter[k])

\* a cursor closed while it held an exhausted list, and two calls after it
C22_Witness ==
    \E k \in EnumKinds :
        /\ sess[k].state = "closed"
        /\ sess[k].last.before.some
        /\ sess[k].last.before.index >= sess[k].last.before.len
        /\ Len(sess[k].gets) = 2
        /\ sess[k].gets[1].status = 0 - 1
        /\ sess[k].gets[2].status = 0 - 1

-----------------------------------------------------------------------------
(* C23 *)

\* C23: previous() lowers the index by one and leaves an index of zero at
\* zero; a get*ent_r call calls it only when its status is TryAgain, so every
\* get*ent_r call that returned left the index one above the index it found,
\* or, when it returned TryAgain, where it found it, each call found the
\* index its predecessor left, and a set*ent call whose list-all call failed
\* left it alone: the index never decreases between two installs or closes.
C23_RewindOnlyOnTryAgain ==
    \A k \in EnumKinds :
        LET s == sess[k]
        IN  /\ previous(iter[k]).items = iter[k].items
            /\ previous(iter[k]).index =
                  (IF iter[k].index = 0 THEN 0 ELSE iter[k].index - 1)
            /\ \A j \in 1..Len(s.gets) :
                  /\ s.gets[j].after =
                        (IF s.gets[j].status = 0 - 2 THEN s.gets[j].pos
                         ELSE s.gets[j].pos + 1)
                  /\ j > 1 => s.gets[j].pos = s.gets[j - 1].after
            /\ \A t \in Threads :
                  (th[t].pc = "get_marshaled" /\ th[t].k = k) =>
                      iter[k].index = th[t].pos + 1
            /\ (s.gets # <<>> /\ lock[k] = 0) =>
                  iter[k].index = s.gets[Len(s.gets)].after

\* three calls on one list: the second was refused for lack of space and left
\* the index at 1, the others moved it up by one
C23_Witness ==
    \E k \in EnumKinds :
        /\ sess[k].state = "open"
        /\ Len(sess[k].gets) = 3
        /\ sess[k].gets[1].after = 1
        /\ sess[k].gets[2].status = 0 - 2
        /\ sess[k].gets[2].after = 1
        /\ sess[k].gets[3].after = 2
        /\ lock[k] = 0
        /\ iter[k].index = 2

-----------------------------------------------------------------------------
(* C24 *)

\* C24: a set*ent call whose list-all response was not Success returned the
\* status of that response and left the Iterator exactly as it found it: a
\* closed cursor is still closed, an open one holds the same list at the same
\* index, and the next get*ent_r call to return continued from that index.
C24_FailedOpenKeepsCursor ==
    \A k \in EnumKinds :
        LET s == sess[k]
            e == s.last
        IN  (e.fn = "set" /\ e.resp # "Success") =>
            /\ e.status = (CASE e.resp = "NotFound" -> 0
                             [] e.resp = "Unavail" -> 0 - 1
                             [] e.resp = "TryAgain" -> 0 - 2
                             [] e.resp = "Return" -> 2)
            /\ e.after = e.kept
            /\ e.kept.items.some = (s.state = "open")
            /\ e.kept.items.some => e.kept.items.v = s.items
            /\ (Len(s.gets) = e.at /\ lock[k] = 0) => iter[k] = e.kept
            /\ Len(s.gets) > e.at =>
                  /\ s.gets[e.at + 1].pos = e.kept.index
                  /\ s.gets[e.at + 1].resp = next_match(e.kept).tag

\* the list-all call failed between the two calls that delivered the two
\* records of a list
C24_Witness ==
    \E k \in EnumKinds :
        /\ sess[k].last.fn = "set"
        /\ sess[k].last.status = 0 - 1
        /\ sess[k].last.at = 1
        /\ Len(sess[k].items) = 2
        /\ Len(sess[k].gets) = 2
        /\ sess[k].gets[1].status = 1
        /\ sess[k].gets[2].status = 1
        /\ sess[k].gets[2].name = sess[k].items[2].name

-----------------------------------------------------------------------------
(* C25 *)

\* C25: the Iterator of a kind is shared by all threads, none has a position
\* of its own: after a set*ent call installed a list, whichever thread made
\* that call, the first get*ent_r call to return found index 0 and each later
\* one the index its predecessor left, whichever threads made them, and each
\* got the record at the index it found; after an end*ent call, whichever
\* thread made it, every get*ent_r call to return gave Unavail.
C25_OneCursorForAllThreads ==
    \A k \in EnumKinds :
        LET s == sess[k]
        IN  /\ s.state = "open" =>
                  \A j \in 1..Len(s.gets) :
                      /\ s.gets[j].pos = (IF j = 1 THEN 0 ELSE s.gets[j - 1].after)
                      /\ s.gets[j].resp =
                            (IF s.gets[j].pos < Len(s.items) THEN "Success" ELSE "NotFound")
            /\ s.state = "closed" =>
                  \A j \in 1..Len(s.gets) : s.gets[j].status = 0 - 1

\* thread 1 had taken the first record of a list when another thread
\* installed a list of two records: thread 1 got the first record of that
\* list next
C25_Witness ==
    \E k \in EnumKinds :
        /\ sess[k].state = "open"
        /\ sess[k].last.fn = "set"
        /\ sess[k].last.before = [some |-> TRUE, index |-> 1, len |-> 2]
        /\ sess[k].last.users = {1}
        /\ ~sess[k].last.own
        /\ Len(sess[k].gets) = 1
        /\ sess[k].gets[1].t = 1
        /\ sess[k].gets[1].pos = 0
        /\ sess[k].gets[1].status = 1
        /\ sess[k].gets[1].name = sess[k].items[1].name

-----------------------------------------------------------------------------
(* C26 *)

\* C26: the cursors of different kinds are independent: a step changes the
\* Iterator, the mutex or the recorded calls of a kind only if the thread
\* that takes it is in, or enters, an entry point of that kind; and a thread
\* that is in no call can enter set*ent, get*ent_r and end*ent of a kind
\* whenever the mutex of that kind is free, whoever holds the other mutexes.
C26_KindsIndependent ==
    /\ [][\A k \in EnumKinds :
             (iter'[k] # iter[k] \/ lock'[k] # lock[k] \/ sess'[k] # sess[k]) =>
                 \E t \in Threads :
                     /\ th'[t] # th[t]
                     /\ \/ th[t].pc # "idle" /\ th[t].k = k
                        \/ th[t].pc = "idle" /\ th'[t].k = k]_vars
    /\ [](\A t \in Threads : \A k \in EnumKinds :
             (~aborted /\ th[t].pc = "idle" /\ nops < MaxOps /\ lock[k] = 0) =>
                 /\ ENABLED setent_lock(t, k)
                 /\ ENABLED getent_lock(t, k)
                 /\ ENABLED endent_lock(t, k))

\* thread 2 has marshaled a group record under the group mutex while thread 1
\* holds the passwd mutex, about to call the backend
C26_Witness ==
    /\ lock["passwd"] = 1
    /\ th[1].pc = "set_locked"
    /\ lock["group"] = 2
    /\ th[2].pc = "get_marshaled"
    /\ th[2].code = 1

-----------------------------------------------------------------------------
(* Specification SpecMixed: the passwd enumeration entry points together with *)
(* the single-record passwd lookups, called by the threads of one process     *)

\* the kind enumerated and looked up
MixedKind == "passwd"

\* what the hook of a single-record lookup may answer
LookupAnswers(kind) == {Success(EnumRecord(kind, <<97>>)), Bare("NotFound")}

\* the name a caller passes to get*nam_r: UTF-8 or not
LookupNames == {<<97>>, <<255>>}

\* a lookup that takes the mutex of the kind's iterator
lookup_lock_iterator(k) == lock[k] = 0

\* what a single-record lookup waits for before it runs: nothing, the entry
\* points take no mutex
lookup_lock(k) == TRUE

\* a single-record entry point is entered: its arguments, and the answer its
\* hook will give
lookup_call(t, k, fn, names) ==
    /\ ~aborted
    /\ th[t].pc = "idle"
    /\ nops < MaxOps
    /\ lookup_lock(k)
    /\ \E resp \in LookupAnswers(k), name \in names :
          th' = [th EXCEPT ![t] = [pc |-> "lookup", fn |-> fn, kind |-> k, resp |-> resp,
                                   name |-> name, buflen |-> MaxBuf]]
    /\ nops' = nops + 1
    /\ UNCHANGED <<iter, lock, sess, aborted, bufvars, call>>

\* _nss_*_getpwuid_r / _getgrgid_r
getid_call(t, k) == lookup_call(t, k, "getid_r", {<<>>})

\* _nss_*_getpwnam_r / _getgrnam_r
getnam_call(t, k) == lookup_call(t, k, "getnam_r", LookupNames)

\* get_entry_by_uid(uid).to_c(result, buf, buflen, errnop)
getid_r(kind, result, start, region, buflen, errno, resp) ==
    Response_to_c(resp, kind, result, start, region, buflen, errno)

\* the entry point returns r to its caller; held is the thread inside an
\* enumeration entry point of the kind at that moment (0: none)
lookup_done(t, r) ==
    /\ r.tag # "panic"
    /\ sess' = [sess EXCEPT ![th[t].kind].looks =
                   Append(@, [status |-> r.status, held |-> lock[th[t].kind]])]
    /\ th' = [th EXCEPT ![t] = [pc |-> "idle"]]
    /\ UNCHANGED <<iter, lock, nops, aborted, bufvars, call>>

getid_return(t) ==
    /\ ~aborted
    /\ th[t].pc = "lookup"
    /\ th[t].fn = "getid_r"
    /\ lookup_done(t, getid_r(th[t].kind, Result0(th[t].kind), 16,
                              [o \in 0..(th[t].buflen - 1) |-> EnumEnv.fill],
                              th[t].buflen, EnumEnv.errno, th[t].resp))

getnam_return(t) ==
    /\ ~aborted
    /\ th[t].pc = "lookup"
    /\ th[t].fn = "getnam_r"
    /\ lookup_done(t, getnam_r(th[t].kind, th[t].name, Result0(th[t].kind), 16,
                               [o \in 0..(th[t].buflen - 1) |-> EnumEnv.fill],
                               th[t].buflen, EnumEnv.errno, [byname |-> th[t].resp]))

NextMixed ==
    \E t \in Threads :
        \/ setent_lock(t, MixedKind)
        \/ getent_lock(t, MixedKind)
        \/ endent_lock(t, MixedKind)
        \/ setent_fetch(t)
        \/ setent_return(t)
        \/ endent_return(t)
        \/ getent_match(t)
        \/ getent_advance(t)
        \/ getent_to_c(t)
        \/ getent_return(t)
        \/ getid_call(t, MixedKind)
        \/ getid_return(t)
        \/ getnam_call(t, MixedKind)
        \/ getnam_return(t)

SpecMixed == InitCursor /\ [][NextMixed]_vars

-----------------------------------------------------------------------------
(* C27 *)

\* C27: a single-record lookup (by id or by name) takes no iterator mutex and
\* neither reads nor changes an Iterator: no step of a lookup changes an
\* Iterator, a mutex or the calls recorded of an enumeration; a lookup can be
\* entered whoever holds the iterator mutex; and with lookups
\* interleaved an enumeration delivers what it delivers without them: each
\* get*ent_r call finds the index its predecessor left and the record at it.
C27_LookupsLeaveCursorsAlone ==
    /\ [][\A t \in Threads :
             (th'[t] # th[t] /\ (th[t].pc = "lookup" \/ th'[t].pc = "lookup")) =>
                 /\ iter' = iter
                 /\ lock' = lock
                 /\ \A k \in EnumKinds :
                       /\ sess'[k].gets = sess[k].gets
                       /\ sess'[k].items = sess[k].items
                       /\ sess'[k].state = sess[k].state]_vars
    /\ [](\A t \in Threads :
             (~aborted /\ th[t].pc = "idle" /\ nops < MaxOps) =>
                 ENABLED getid_call(t, MixedKind) /\ ENABLED getnam_call(t, MixedKind))
    /\ [](LET s == sess[MixedKind]
          IN  s.state = "open" =>
                  \A j \in 1..Len(s.gets) :
                      /\ s.gets[j].pos = (IF j = 1 THEN 0 ELSE s.gets[j - 1].after)
                      /\ s.gets[j].resp =
                            (IF s.gets[j].pos < Len(s.items) THEN "Success" ELSE "NotFound")
                      /\ s.gets[j].status = 1 =>
                            s.gets[j].name = s.items[s.gets[j].pos + 1].name)

\* a lookup returned Success while another thread was inside get*ent_r with
\* the mutex held, between the two calls that delivered the two records
C27_Witness ==
    LET s == sess[MixedKind]
    IN  /\ s.state = "open"
        /\ Len(s.gets) = 2
        /\ s.gets[1].status = 1
        /\ s.gets[1].looks = 0
        /\ s.gets[2].status = 1
        /\ s.gets[2].looks = 1
        /\ s.gets[2].name = s.items[2].name
        /\ s.looks[1].status = 1
        /\ s.looks[1].held # 0

-----------------------------------------------------------------------------
(* C28 *)

\* C28: no backend call is made while an iterator mutex is held: a thread
\* that is in the list-all call of set*ent does not hold the mutex (it takes
\* it afterwards, to install the fetched list), so get*ent_r and end*ent of
\* the other threads do not wait for the backend.
C28_NoBackendCallUnderLock ==
    \A t \in Threads : th[t].pc = "set_locked" => lock[th[t].k] # t

-----------------------------------------------------------------------------
(* C29 *)

\* C29: marshaling a record fails in one way only: whichever allocation of
\* whichever kind does not fit (a string field, the pointer slots of a list,
\* a string in the middle of a list, an address), the call that returns gives
\* TryAgain with errno ERANGE, exactly when the buffer is smaller than the
\* record needs; no record and no buffer size give Unavail.
C29_UniformCapacityError ==
    Marshaled =>
        /\ call.r.status # 0 - 1
        /\ call.buflen < BytesNeeded(call.kind, call.resp.val) =>
              call.r.status = 0 - 2 /\ call.r.errno = ERANGE
        /\ call.buflen >= BytesNeeded(call.kind, call.resp.val) =>
              call.r.status = 1 /\ call.r.errno = 0

\* a group whose second member did not fit after the pointer slots and the
\* first member were written
C29_Witness ==
    /\ Marshaled
    /\ call.kind = "group"
    /\ Len(call.resp.val.members) = 2
    /\ call.buflen = BytesNeeded("group", call.resp.val) - 1
    /\ call.r.buf.pos - call.r.buf.start = call.buflen
    /\ call.env.errno # ERANGE
    /\ call.r.status = 0 - 2
    /\ call.r.errno = ERANGE

-----------------------------------------------------------------------------
(* C30 *)

\* the pointer fields of an output struct in the order they are assigned,
\* each with the bytes its data takes in the buffer
PtrFields(kind, e) ==
    CASE kind = "passwd" ->
            <<[f |-> "name", n |-> Len(e.name) + 1],
              [f |-> "passwd", n |-> Len(e.passwd) + 1],
              [f |-> "gecos", n |-> Len(e.gecos) + 1],
              [f |-> "dir", n |-> Len(e.dir) + 1],
              [f |-> "shell", n |-> Len(e.shell) + 1]>>
      [] kind = "group" ->
            <<[f |-> "name", n |-> Len(e.name) + 1],
              [f |-> "passwd", n |-> Len(e.passwd) + 1],
              [f |-> "members", n |-> SumSeq(ListSizes(e.members))]>>
      [] kind = "shadow" ->
            <<[f |-> "name", n |-> Len(e.name) + 1],
              [f |-> "passwd", n |-> Len(e.passwd) + 1]>>
      [] kind = "host" ->
            <<[f |-> "name", n |-> Len(e.name) + 1],
              [f |-> "h_aliases", n |-> SumSeq(ListSizes(e.aliases))],
              [f |-> "h_addr_list",
               n |-> PtrSize * (Len(e.addresses.addrs) + 1)
                     + Len(e.addresses.addrs) * (IF e.addresses.v = "V4" THEN 4 ELSE 16)]>>

\* the bytes the first i pointer fields take together
NeedUpTo(fs, i) == SumSeq([j \in 1..i |-> fs[j].n])

\* pointer field f of out refers to complete data equal to the record's
FieldRefers(e, f, out, b) ==
    CASE f \in {"name", "passwd", "gecos", "dir", "shell"} -> StrField(b, out[f], e[f])
      [] f = "members" -> StrsField(b, out.members, e.members)
      [] f = "h_aliases" -> StrsField(b, out.h_aliases, e.aliases)
      [] f = "h_addr_list" ->
            AddrsField(b, out.h_addr_list, e.addresses.addrs,
                       IF e.addresses.v = "V4" THEN 4 ELSE 16)

\* C30: when marshaling fails for lack of space, each pointer field whose
\* data fitted refers to complete data equal to the record's field, inside
\* the region, and the field whose data did not fit and every pointer field
\* after it were not assigned.
C30_PointerAfterReserve ==
    (Marshaled /\ call.r.status = 0 - 2) =>
        LET fs == PtrFields(call.kind, call.resp.val)
        IN  \A i \in 1..Len(fs) :
                IF NeedUpTo(fs, i) <= call.buflen
                THEN FieldRefers(call.resp.val, fs[i].f, call.r.out, call.r.buf)
                ELSE call.r.out[fs[i].f] = Unset

-----------------------------------------------------------------------------
(* C31 *)

\* C31: marshaling a host record leaves h_addrtype and h_length either both
\* unassigned or as the pair of the record's address set, (AF_INET, 4) for V4
\* and (AF_INET6, 16) for V6; when the call reports Success the pair is
\* assigned, h_addr_list has one slot per address in the record's order, each
\* pointing at h_length bytes inside the region that equal the address, and
\* the slot after the last address is a null pointer.
C31_HostAddresses ==
    (Marshaled /\ call.kind = "host") =>
        LET e == call.resp.val
            out == call.r.out
            b == call.r.buf
            pair == IF e.addresses.v = "V4" THEN <<AF_INET, 4>> ELSE <<AF_INET6, 16>>
            slot(i) == out.h_addr_list + PtrSize * (i - 1)
        IN  /\ <<out.h_addrtype, out.h_length>> \in {<<Unset, Unset>>, pair}
            /\ call.r.status = 1 =>
                  /\ <<out.h_addrtype, out.h_length>> = pair
                  /\ \A i \in 1..Len(e.addresses.addrs) :
                        /\ InRegion(b, slot(i), PtrSize)
                        /\ InRegion(b, PtrAt(b, slot(i)), pair[2])
                        /\ [j \in 1..pair[2] |-> b.mem[(PtrAt(b, slot(i)) + j - 1) - b.start]]
                              = e.addresses.addrs[i]
                  /\ InRegion(b, slot(Len(e.addresses.addrs) + 1), PtrSize)
                  /\ PtrAt(b, slot(Len(e.addresses.addrs) + 1)) = 0

\* two IPv4 addresses marshaled over stale memory
C31_Witness ==
    /\ Marshaled
    /\ call.kind = "host"
    /\ call.resp.val.addresses.v = "V4"
    /\ Len(call.resp.val.addresses.addrs) = 2
    /\ call.env.fill # 0
    /\ call.r.status = 1
    /\ call.r.out.h_length = 4
    /\ PtrAt(call.r.buf, call.r.out.h_addr_list + PtrSize) # 0

-----------------------------------------------------------------------------
(* C32 *)

\* C32: when a host lookup by address returns, h_errno holds the success
\* value (NetDbSuccess) if and only if the returned status is Success, for
\* every answer of the backend and every buffer size.
C32_HerrnoSuccessIffSuccess ==
    (call.op = "done" /\ call.fn = "gethostbyaddr_r" /\ call.r.tag = "ret") =>
        (call.r.h_errno = NetDbSuccess <=> call.r.status = 1)

-----------------------------------------------------------------------------
(* C33 *)

\* C33: when to_c returns, the caller's region is zero-filled: after a
\* response that is not Success every byte of [0, buflen) is zero, and after
\* a record was marshaled every byte the record did not write is zero,
\* whatever the region held before.
C33_RegionZeroFilled ==
    (call.op = "to_c" /\ call.r.tag = "ret") =>
        /\ call.resp.tag # "Success" =>
              \A o \in 0..(call.buflen - 1) : call.r.buf.mem[o] = 0
        /\ call.resp.tag = "Success" =>
              \A o \in (call.r.buf.pos - call.r.buf.start)..(call.buflen - 1) :
                  call.r.buf.mem[o] = 0

-----------------------------------------------------------------------------
(* initgroups.rs: _nss_*_initgroups_dyn *)

\* Largest number of entries of the caller's group array
MaxGroups == 3

\* A wrapped usize difference a - b with a < b is 2^64 - (b - a), above the
\* length of every Vec; the largest integer of the checker stands for it.
usize_wrapped == 2147483647

\* limit - *start on usize: a build with overflow checks panics when the
\* difference is negative, a build without them wraps
usize_sub(a, b, checks) ==
    IF a >= b THEN [tag |-> "ok", v |-> a - b]
    ELSE IF checks THEN [tag |-> "panic", v |-> 0]
    ELSE [tag |-> "ok", v |-> usize_wrapped]

\* .filter_map(|x| if x.gid == skipgroup { None } else { Some(x.gid) })
RECURSIVE filter_gids(_, _)
filter_gids(records, skipgroup) ==
    IF records = <<>> THEN <<>>
    ELSE IF Head(records).gid = skipgroup THEN filter_gids(Tail(records), skipgroup)
    ELSE <<Head(records).gid>> \o filter_gids(Tail(records), skipgroup)

\* .take(n)
take(q, n) == SubSeq(q, 1, IF n < Len(q) THEN n ELSE Len(q))

\* The outputs behind the pointers start, size, groupsp and errnop
InitgroupsOut(tag, status, start, size, arr, errno, calls) ==
    [tag |-> tag, status |-> status, start |-> start, size |-> size,
     arr |-> arr, errno |-> errno, calls |-> calls]

\* realloc to start + Len(gids) entries when that differs from size, then
\* group_array[*start..*size].copy_from_slice(&groups); *start = len
initgroups_store_keep_start(gids, start, size, arr, errno, calls) ==
    InitgroupsOut("ret", NssSuccess, start, start + Len(gids),
                  [i \in 1..(start + Len(gids)) |->
                      IF i <= start THEN arr[i] ELSE gids[i - start]],
                  errno, calls)

initgroups_store(gids, start, size, arr, errno, calls) ==
    InitgroupsOut("ret", NssSuccess, start + Len(gids), start + Len(gids),
                  [i \in 1..(start + Len(gids)) |->
                      IF i <= start THEN arr[i] ELSE gids[i - start]],
                  errno, calls)

initgroups_take(gids, n, start, size, arr, errno, calls) ==
    IF n.tag = "panic"
    THEN InitgroupsOut("panic", 0, start, size, arr, errno, calls)
    ELSE IF take(gids, n.v) = <<>>
         THEN InitgroupsOut("ret", NssSuccess, start, size, arr, errno, calls)
         ELSE initgroups_store(take(gids, n.v), start, size, arr, errno, calls)

initgroups_error_quiet(status, start, size, arr, errno, calls) ==
    InitgroupsOut("ret", status, start, size, arr, errno, calls)

initgroups_error(status, start, size, arr, errno, calls) ==
    InitgroupsOut("ret", status, start, size, arr, ENOENT, calls)

initgroups_dyn(name, skipgroup, start, size, arr, limit, errno, hook, checks) ==
    IF ~from_utf8(name).ok
    THEN initgroups_error(NssNotFound, start, size, arr, errno, <<>>)
    ELSE IF hook.tag # "Success"
         THEN initgroups_error(to_status(hook), start, size, arr, errno,
                               <<[hook |-> "get_entries_by_user", user |-> name]>>)
         ELSE initgroups_take(filter_gids(hook.val, skipgroup),
                              usize_sub(limit, start, checks), start, size, arr, errno,
                              <<[hook |-> "get_entries_by_user", user |-> name]>>)

-----------------------------------------------------------------------------
(* Inputs of initgroups: the caller's array holds its own ids below start *)

GroupOf(g) == [name |-> <<103>>, passwd |-> <<120>>, gid |-> g, members |-> <<>>]

UserGroups ==
    {<<>>, <<GroupOf(2000)>>, <<GroupOf(3000)>>,
     <<GroupOf(3000), GroupOf(2000), GroupOf(3001)>>,
     <<GroupOf(3002), GroupOf(3001), GroupOf(3000)>>}

CallerArray(start, size) == [i \in 1..size |-> IF i <= start THEN 100 + i ELSE 0]

InitgroupsInputs ==
    {[op |-> "pending", fn |-> "initgroups_dyn", name |-> n, skipgroup |-> 2000,
      start |-> s, size |-> z, arr |-> CallerArray(s, z), limit |-> l, errno |-> e,
      hook |-> h, checks |-> c] :
        n \in {<<97>>, <<255>>}, s \in 0..(MaxGroups - 1), z \in 1..MaxGroups,
        l \in 0..(MaxGroups + 1), e \in {0, 11},
        h \in {Success(q) : q \in UserGroups} \cup {Bare(t) : t \in Tags \ {"Success"}},
        c \in BOOLEAN}

InitInitgroups ==
    /\ cb = CBuffer_new(16, 0, <<>>)
    /\ bres = NoCall
    /\ ncalls = 0
    /\ call \in {c \in InitgroupsInputs : c.start <= c.size}
    /\ CursorIdle

InitgroupsDyn ==
    Finish("initgroups_dyn",
           initgroups_dyn(call.name, call.skipgroup, call.start, call.size, call.arr,
                          call.limit, call.errno, call.hook, call.checks))

NextInitgroups == InitgroupsDyn

SpecInitgroups == InitInitgroups /\ [][NextInitgroups]_vars

InitgroupsDone == call.op = "done" /\ call.fn = "initgroups_dyn"

\* The ids the backend found for the user, without skipgroup
FoundGids ==
    LET others == SelectSeq(call.hook.val, LAMBDA x : x.gid # call.skipgroup)
    IN  [i \in 1..Len(others) |-> others[i].gid]

InitgroupsFound == InitgroupsDone /\ from_utf8(call.name).ok /\ call.hook.tag = "Success"

OutputsUnchanged ==
    /\ call.r.start = call.start
    /\ call.r.size = call.size
    /\ call.r.arr = call.arr

-----------------------------------------------------------------------------
(* C34 *)

\* C34 as stated: a returned call whose backend found k > 0 ids other than
\* skipgroup stored exactly those k ids at [start, start + k), kept the
\* entries below start, and set start and size to old start + k; with no id
\* left it returned Success and changed no output.
C34_AppendsAllFound ==
    (InitgroupsFound /\ call.r.tag = "ret") =>
        /\ call.r.status = NssSuccess
        /\ FoundGids = <<>> => OutputsUnchanged
        /\ FoundGids # <<>> =>
              /\ call.r.start = call.start + Len(FoundGids)
              /\ call.r.size = call.start + Len(FoundGids)
              /\ Len(call.r.arr) = call.r.size
              /\ \A i \in 1..call.start : call.r.arr[i] = call.arr[i]
              /\ \A i \in 1..Len(FoundGids) : call.r.arr[call.start + i] = FoundGids[i]

\* C34 amended: with limit >= start the call stores the first
\* k = min(found, limit - start) ids other than skipgroup, in the backend's
\* order, at [start, start + k), keeps the entries below start and sets
\* start and size to old start + k; with k = 0 it returns Success and changes
\* no output.
C34_AppendsFoundUpToLimit ==
    (InitgroupsFound /\ call.limit >= call.start) =>
        LET kept == take(FoundGids, call.limit - call.start) IN
        /\ call.r.tag = "ret"
        /\ call.r.status = NssSuccess
        /\ call.r.errno = call.errno
        /\ kept = <<>> => OutputsUnchanged
        /\ kept # <<>> =>
              /\ call.r.start = call.start + Len(kept)
              /\ call.r.size = call.start + Len(kept)
              /\ Len(call.r.arr) = call.r.size
              /\ \A i \in 1..call.start : call.r.arr[i] = call.arr[i]
              /\ \A i \in 1..Len(kept) : call.r.arr[call.start + i] = kept[i]

C34_Witness ==
    /\ InitgroupsFound
    /\ call.start = 1 /\ call.size = 3 /\ call.limit = 3
    /\ Len(call.hook.val) = 3 /\ Len(FoundGids) = 2
    /\ call.r.arr = <<101, 3000, 3001>>
    /\ call.r.start = 3

-----------------------------------------------------------------------------
(* C35 *)

\* C35: for every input, with limit below start and limit 0 included, the
\* call returns, stores at most max(0, limit - start) ids, and so never
\* leaves more than limit ids in the array when limit is positive.
C35_AtMostLimit ==
    InitgroupsFound =>
        /\ call.r.tag = "ret"
        /\ call.r.start - call.start <=
              (IF call.limit >= call.start THEN call.limit - call.start ELSE 0)
        /\ (call.limit > 0 /\ call.r.start # call.start) => call.r.start <= call.limit

-----------------------------------------------------------------------------
(* C36 *)

\* C36: a user name that is not UTF-8 gives NotFound with errno ENOENT and
\* no backend call; a backend response other than Success gives that
\* response's status with errno ENOENT; both leave start, size and the
\* array as they were.
C36_InitgroupsErrors ==
    /\ (InitgroupsDone /\ ~from_utf8(call.name).ok) =>
          /\ call.r.tag = "ret"
          /\ call.r.status = NssNotFound
          /\ call.r.errno = ENOENT
          /\ call.r.calls = <<>>
          /\ OutputsUnchanged
    /\ (InitgroupsDone /\ from_utf8(call.name).ok /\ call.hook.tag # "Success") =>
          /\ call.r.tag = "ret"
          /\ call.r.status = to_status(call.hook)
          /\ call.r.errno = ENOENT
          /\ Len(call.r.calls) = 1
          /\ OutputsUnchanged

C36_Witness ==
    /\ InitgroupsDone
    /\ from_utf8(call.name).ok
    /\ call.hook.tag = "Unavail"
    /\ call.errno = 11
    /\ call.start = 1 /\ call.size = 2
    /\ call.r.status = NssUnavail
    /\ call.r.errno = ENOENT

-----------------------------------------------------------------------------
(* client/mod.rs: new_client and the self-check of the authd process *)

\* process ids of the model
Pids == {7, 9}

\* what std::env::var(AUTHD_PID_ENV_VAR) gives: the texts "", "7", "9", "+7",
\* "-7", "x", or no usable variable
PidTexts == {<<>>, <<55>>, <<57>>, <<43, 55>>, <<45, 55>>, <<120>>}

EnvVars ==
    {[tag |-> "NotPresent"], [tag |-> "NotUnicode"]} \cup {[tag |-> "Ok", s |-> s] : s \in PidTexts}

\* what stream.peer_cred() and peer_cred.pid() give
Peers ==
    {[tag |-> "Err"], [tag |-> "None"]} \cup {[tag |-> "Some", pid |-> p] : p \in Pids}

\* UnixStream::connect(socket_path()): an error, or a stream with its peer
Sockets == {[connected |-> FALSE]} \cup {[connected |-> TRUE, peer |-> p] : p \in Peers}

RECURSIVE digits_value(_, _)
digits_value(s, acc) ==
    IF s = <<>> THEN acc ELSE digits_value(Tail(s), acc * 10 + (Head(s) - 48))

\* str::parse::<u32>(): an optional '+', then one or more decimal digits
\* (the texts of the model stay far below u32::MAX)
parse_u32(s) ==
    LET d == IF s # <<>> /\ Head(s) = 43 THEN Tail(s) ELSE s IN
    IF d # <<>> /\ \A i \in 1..Len(d) : d[i] \in 48..57
    THEN [ok |-> TRUE, v |-> digits_value(d, 0)]
    ELSE [ok |-> FALSE, v |-> 0]

\* check_is_authd_process(&stream); the peer pid of a connected socket is
\* never negative, so try_into().unwrap() returns
check_is_authd_process(var, current_pid, peer) ==
    IF var.tag # "Ok" THEN FALSE
    ELSE IF ~parse_u32(var.s).ok THEN FALSE
    ELSE IF current_pid # parse_u32(var.s).v THEN FALSE
    ELSE IF peer.tag # "Some" THEN FALSE
    ELSE IF parse_u32(var.s).v # peer.pid THEN FALSE
    ELSE TRUE

\* static AUTHD_PROCESS_CHECK: OnceLock<bool>
OnceLock_new == [set |-> FALSE, v |-> FALSE]

get_or_init_again(cell, v) == [set |-> TRUE, v |-> v, ran |-> TRUE]

\* OnceLock::get_or_init(|| f): f runs only while the cell is empty
get_or_init(cell, v) ==
    IF cell.set THEN [set |-> TRUE, v |-> cell.v, ran |-> FALSE]
    ELSE [set |-> TRUE, v |-> v, ran |-> TRUE]

\* the connector closure of new_client, given what get_or_init returned
connector(got) ==
    [refused |-> got.v, cell |-> [set |-> got.set, v |-> got.v], ran |-> got.ran]

\* new_client(): connect the socket, run or reuse the self-check, then set up
\* the channel (channel says whether connect_with_connector succeeds on an
\* accepted stream)
new_client(cell, var, current_pid, socket, channel) ==
    IF ~socket.connected
    THEN [ok |-> FALSE, refused |-> FALSE, cell |-> cell, ran |-> FALSE]
    ELSE LET c == connector(get_or_init(cell,
                        check_is_authd_process(var, current_pid, socket.peer)))
         IN  [ok |-> ~c.refused /\ channel] @@ c

-----------------------------------------------------------------------------
(* Specification SpecClient: the lookups of one process, each connecting with *)
(* new_client, while the environment of the process may change between them   *)

ClientReplies(kind) ==
    {[ok |-> TRUE, val |-> <<Msg(kind)>>], [ok |-> FALSE, err |-> [code |-> "NotFound"]]}

InitClient ==
    /\ cb = CBuffer_new(16, 0, <<>>)
    /\ bres = NoCall
    /\ ncalls = 0
    /\ call \in [op : {"client"}, fn : {"new_client"}, var : EnvVars, pid : Pids,
                 cell : {OnceLock_new}, evals : {0}, log : {<<>>}]
    /\ CursorIdle

\* the four conditions of the self-check, as they stand for one connection
IsAuthdItself(var, current_pid, socket) ==
    /\ var.tag = "Ok"
    /\ parse_u32(var.s).ok
    /\ parse_u32(var.s).v = current_pid
    /\ socket.connected
    /\ socket.peer.tag = "Some"
    /\ socket.peer.pid = parse_u32(var.s).v

LookupEntry(socket, nc, ans) ==
    [connected |-> socket.connected, holds |-> IsAuthdItself(call.var, call.pid, socket),
     refused |-> nc.refused, ran |-> nc.ran, resp |-> ans.resp.tag, sent |-> ans.sent]

ClientStep(socket, nc, ans) ==
    /\ call' = [call EXCEPT !.cell = nc.cell,
                            !.evals = @ + (IF nc.ran THEN 1 ELSE 0),
                            !.log = Append(@, LookupEntry(socket, nc, ans))]
    /\ UNCHANGED <<bufvars, curvars>>

\* get_all_entries() of one kind: build the runtime, new_client(), list
AuthdLookup ==
    /\ call.op = "client"
    /\ Len(call.log) < MaxCalls
    /\ \E kind \in {"passwd", "group", "shadow"}, socket \in Sockets, channel \in BOOLEAN :
         \E reply \in ClientReplies(kind) :
            LET nc == new_client(call.cell, call.var, call.pid, socket, channel)
            IN  ClientStep(socket, nc,
                    authd_get_all_entries(kind, [rt |-> TRUE, conn |-> nc.ok, reply |-> reply]))

\* the process changes or removes AUTHD_PID between two lookups
SetEnv ==
    /\ call.op = "client"
    /\ \E v \in EnvVars :
         /\ v # call.var
         /\ call' = [call EXCEPT !.var = v]
    /\ UNCHANGED <<bufvars, curvars>>

NextClient == AuthdLookup \/ SetEnv

SpecClient == InitClient /\ [][NextClient]_vars

-----------------------------------------------------------------------------
(* C37 *)

\* the lookups so far whose socket connected
Connected == {i \in 1..Len(call.log) : call.log[i].connected}

FirstConnected == CHOOSE i \in Connected : \A j \in Connected : i <= j

\* C37: the self-check runs at most once per process, on the first
\* connection.  If AUTHD_PID was set, parsed as an unsigned number and was
\* equal to the process id and to the socket's peer pid on that connection,
\* every connection is refused and every lookup returns Unavail without a
\* request; if one of the conditions failed then, that connection and every
\* later one proceeds.
C37_SelfCheckOnce ==
    call.op = "client" =>
        /\ call.evals = (IF Connected = {} THEN 0 ELSE 1)
        /\ \A i \in 1..Len(call.log) : call.log[i].ran <=> (i \in Connected /\ i = FirstConnected)
        /\ Connected # {} =>
              /\ call.log[FirstConnected].holds =>
                    /\ \A i \in Connected : call.log[i].refused
                    /\ \A i \in 1..Len(call.log) :
                          call.log[i].resp = "Unavail" /\ ~call.log[i].sent
              /\ ~call.log[FirstConnected].holds =>
                    \A i \in Connected : ~call.log[i].refused

\* authd's own process: refused on the first connection, and still refused
\* after AUTHD_PID was changed
C37_Witness ==
    /\ call.op = "client"
    /\ Len(call.log) = 3
    /\ ~call.log[1].connected
    /\ call.log[2].connected /\ call.log[2].holds /\ call.log[2].refused
    /\ call.log[3].connected /\ ~call.log[3].holds /\ call.log[3].refused
    /\ call.evals = 1

-----------------------------------------------------------------------------
(* C38 *)

\* C38: a passwd lookup of the name "pam_unix_non_existent:" never sends a
\* request to the daemon; it answers NotFound when the runtime was built and
\* the connection made, and Unavail when either failed.
C38_PamNameNotSent ==
    (call.op = "done" /\ call.fn = "get_entry_by_name" /\ call.kind = "passwd"
        /\ call.name = PamFakeName) =>
        /\ ~call.r.sent
        /\ call.r.resp = (IF call.env.rt /\ call.env.conn THEN Bare("NotFound")
                          ELSE Bare("Unavail"))

C38_Witness ==
    /\ call.op = "done" /\ call.fn = "get_entry_by_name" /\ call.kind = "passwd"
    /\ call.name = PamFakeName
    /\ call.env.rt /\ call.env.conn /\ call.env.reply.ok
    /\ call.r.resp = Bare("NotFound")
    /\ ~call.r.sent

====
